---- MODULE Spec2Model ----
(***************************************************************************)
(* A model of the KryptoMF bot core: the BotInstance run loop with its     *)
(* controlling thread and worker threads (src/src/core/bot_instance.py),   *)
(* the CCXT exchange connector (src/src/plugins/exchanges/ccxt_exchange.py)*)
(* and the DCA strategies (src/src/plugins/strategies).                    *)
(*                                                                         *)
(*   Spec          one BotInstance: start, stop, pause, resume, the        *)
(*                 threads executing _run_loop, the exchange's orders and  *)
(*                 the saved state; a _save_state call is one step         *)
(*   RestartSpec   the same with new BotInstance objects built on the      *)
(*                 saved state, every call succeeding                      *)
(*   SessionSpec   one session, from start() to stop()                     *)
(*   LiveSpec      a live session that keeps iterating, under fairness     *)
(*   TrailingSpec  the trailing state machine of the DCA strategies        *)
(*   LedgerSpec    the purchase ledger of AdvancedDCAStrategy              *)
(*   FileSpec      _save_state step by step on the file system, two        *)
(*                 threads and crashes                                     *)
(*   StepSpec      the progressive step-down of AdvancedDCAStrategy        *)
(*   BacktestSpec  one run of the BacktestEngine over the signals of a     *)
(*                 strategy                                                *)
(*   ReplaySpec    two runs of the BacktestEngine over the same bars with  *)
(*                 the DCA strategies' analyze()                           *)
(*   ExchangeSpec  the place_order calls of one CCXTExchange instance      *)
(*   BackoffSpec   the backoff times over consecutive failures             *)
(*   StartupSpec   a BotInstance from its constructor on: initialize(),    *)
(*                 start(), one thread, stop()                             *)
(*   PauseSpec     one session with pause() and resume() and no restart    *)
(*   StrategySpec  one strategy instance: analyze(), on_order_filled(),    *)
(*                 then get_state() and restore_state() into a new one     *)
(*   AdvancedSpec  the same for AdvancedDCAStrategy alone                  *)
(*   VoteSpec      AdvancedDCAStrategy's analyze() on snapshots with a     *)
(*                 price and windows of every indicator vote               *)
(*   ParamSpec     the same over the strategy parameters: enabled          *)
(*                 indicators, indicator_agreement, max_purchases          *)
(*   GridSpec      one GridTradingStrategy: analyze(), on_order_filled()   *)
(***************************************************************************)
EXTENDS Integers, Sequences, FiniteSets, TLC

\* ------------------------------------------------------------------ bounds
\* Threads that may exist at once (each start() takes a free slot).
MaxWorkers == 2
\* place_order calls that return an order, over one behaviour.
MaxTrades == 2
\* Distinct non-zero prices a signal may carry.
NumPrices == 1
\* Cap of the connectivity_failures counter.
MaxFailures == 2
\* New BotInstance objects built after the first one.
MaxRestarts == 1
\* Highest price handed to a trailing method.
MaxPrice == 4
\* Calls of trailing methods over one behaviour.
MaxCalls == 5
\* Open purchases the AdvancedDCA ledger may hold.
MaxPurchases == 3
\* on_order_filled calls on the AdvancedDCA ledger over one behaviour.
MaxFills == 4
\* Largest order amount, in lots.
MaxAmount == 2
\* Buffer flushes one json.dump of the state takes.
NumChunks == 2
\* _save_state calls over one behaviour of the file system.
MaxSaves == 3
\* Highest purchase number the step-down is computed for.
MaxPurchaseNumber == 6
\* Candles one backtest processes.
MaxCandles == 3
\* place_order calls on one exchange instance.
MaxOrders == 3
\* Consecutive failures of one run loop.
MaxConsecutive == 10
\* time.time() at the end of a strategy instance's history, in seconds.
MaxClock == 401
\* Seconds between two steps of a strategy instance that follow closely.
Tick == 100
\* on_order_filled calls on a strategy instance before its restart.
MaxStrategyFills == 3
\* Indicators a configuration may enable.
MaxIndicators == 2
\* on_order_filled calls on a strategy whose parameters vary.
MaxParamFills == 1
\* Grid levels on each side of the price ('grid_levels' of the params).
grid_levels == 2
\* analyze and on_order_filled calls on one GridTradingStrategy.
MaxGridCalls == 4

\* --------------------------------------------------------- program constants
\* config.get('max_connectivity_failures', 2)
max_connectivity_failures == 2

VARIABLES
    \* BotInstance
    paper_trading,          \* config 'paper_trading'
    running,                \* self.running
    paused,                 \* self.paused
    thread,                 \* self.thread: 0 is None, else the slot of the thread
    total_trades,           \* self.stats['total_trades']
    connectivity_failures,  \* self.connectivity_failures
    notified_orders,        \* self.notified_orders
    \* threads
    wpc,                    \* position of each _run_loop thread
    wsignal,                \* the signal a thread got from strategy.analyze
    cpc,                    \* position of the controlling thread inside stop()
    \* CCXTExchange
    connected,              \* CCXTExchange.exchange is not None
    orders,                 \* the live exchange's orders, by sequence number
    hash_seed,              \* the process's str hash salt (paper order ids)
    \* strategy
    strategy_fills,         \* fills the strategy instance has booked
    trailing_state,         \* strategy.trailing_state
    \* persistence
    disk,                   \* content of bot_state_<id>.json
    \* history
    delivered,              \* order id -> number of on_order_filled calls
    delivered_before,       \* delivered, as it was when the latest BotInstance was built
    restarts,               \* new BotInstance objects built so far
    last_error,             \* the error raised by the latest thread step
    trailing_call,          \* the latest call of a trailing method
    \* AdvancedDCAStrategy
    purchases,              \* self.purchases
    total_profit,           \* self.total_profit
    total_dca_applied,      \* self.total_dca_applied
    ledger_fills,           \* on_order_filled calls on the ledger so far
    last_order,             \* the order of the latest on_order_filled call
    fee_percent,            \* the live exchange's fee, in percent of the cost
    \* the file system under data/
    inodes,                 \* the files' contents, by inode number
    temp_file,              \* inode bot_state_<id>.tmp names, 0 when absent
    state_file,             \* inode bot_state_<id>.json names, 0 when absent
    saver,                  \* each thread's position inside _save_state
    saves,                  \* _save_state calls begun so far
    crashed,                \* the process has died
    \* AdvancedDCAStrategy, progressive step-down
    step_params,            \* the step-down parameters of the config
    purchase_number,        \* number of the purchase analyze() considers
    required_step,          \* the drop, in percent, analyze() asked for it
    \* BacktestEngine
    backtest,               \* the engine: balance, position, trades, ...
    bt_signals,             \* the signals analyze() returned, with the closes
    bt_reported,            \* on_order_filled calls the engine has made
    results,                \* the dictionary of run() and how run() ended
    \* two backtests over the same bars
    bars,                   \* the closes of historical_data
    variant,                \* the strategy class of the configuration
    replay,                 \* each run: its engine and its strategy's cache
    \* one CCXTExchange instance
    placed_orders,          \* the orders its place_order calls returned
    \* consecutive failures of one run loop
    waits,                  \* the backoff time of each, with path and count
    \* BotInstance before and during initialize()
    strategy_name,          \* config 'strategy'
    exchange,               \* self.exchange is not None
    strategy,               \* self.strategy: "None" or the strategy's name
    initialize_result,      \* how initialize() ended, "none" before the call
    start_refused,          \* a start() has returned at 'Not initialized'
    \* one strategy instance, its analyze calls and its restart
    dca_fields,             \* the fields of a DCAStrategy
    clock,                  \* time.time()
    analyze_call,           \* the latest analyze(): snapshot and signal
    restored,               \* the instance built from the saved state
    strategy_params,        \* self.params: indicators, agreement, max_purchases
    \* one GridTradingStrategy
    grid,                   \* its grid_orders and current_price
    grid_call               \* its latest call, and the number of calls

botVars == <<paper_trading, running, paused, thread, total_trades,
             connectivity_failures, notified_orders, wpc, wsignal, cpc,
             connected, orders, hash_seed, strategy_fills, disk, delivered,
             delivered_before, restarts, last_error>>

ledgerVars == <<purchases, total_profit, total_dca_applied, ledger_fills,
                last_order, fee_percent>>

fileVars == <<inodes, temp_file, state_file, saver, saves, crashed>>

stepVars == <<step_params, purchase_number, required_step>>

backtestVars == <<backtest, bt_signals, bt_reported, results>>

replayVars == <<bars, variant, replay>>

exchangeVars == <<placed_orders>>

backoffVars == <<waits>>

startupVars == <<strategy_name, exchange, strategy, initialize_result,
                 start_refused>>

gridVars == <<grid, grid_call>>

strategyVars == <<dca_fields, clock, analyze_call, restored, strategy_params,
                  gridVars>>

calcVars == <<stepVars, backtestVars, replayVars, exchangeVars, backoffVars,
              startupVars, strategyVars>>

auxVars == <<trailing_call, ledgerVars, fileVars, calcVars>>

coreVars == <<botVars, trailing_state, trailing_call, ledgerVars, fileVars>>

\* What the steps of one part leave alone.
outsideStep == <<coreVars, backtestVars, replayVars, exchangeVars,
                 backoffVars, startupVars,
                 strategyVars>>
outsideBacktest == <<coreVars, stepVars, replayVars, exchangeVars,
                     backoffVars, startupVars,
                 strategyVars>>
outsideReplay == <<coreVars, stepVars, backtestVars, exchangeVars,
                   backoffVars, startupVars,
                 strategyVars>>
outsideExchange == <<coreVars, stepVars, backtestVars, replayVars,
                     backoffVars, startupVars,
                 strategyVars>>
outsideBackoff == <<coreVars, stepVars, backtestVars, replayVars,
                    exchangeVars, startupVars,
                 strategyVars>>

outsideStrategy == <<stepVars, backtestVars, replayVars, exchangeVars,
                     backoffVars, startupVars>>

vars == <<botVars, trailing_state, auxVars>>

Workers == 1..MaxWorkers
Prices == 0..NumPrices
Sides == {"buy", "sell"}

NoFile == [kind |-> "absent"]
NoSignal == [action |-> "hold", price |-> 0]
NoError == "none"

\* The trailing state DCAStrategy and AdvancedDCAStrategy are built with.
InactiveTrailing ==
    [status |-> "inactive", direction |-> "none", activation_price |-> 0,
     watermark |-> 0, trailing_percent |-> 0, last_update |-> 0]

\* ---------------------------------------------------------------- exchange

\* CCXTExchange.place_order in paper mode: the id is a hash of the order's
\* parameters, so it is a function of (side, amount, price) within a process.
PaperOrderId(side, price) ==
    [kind |-> "paper", seed |-> hash_seed, side |-> side, price |-> price, n |-> 0]

\* A live exchange numbers its orders.
LiveOrderId(n) ==
    [kind |-> "live", seed |-> 0, side |-> "none", price |-> 0, n |-> n]

\* CCXTExchange.get_open_orders: [] in paper mode, else the exchange's list
\* of the orders that are still open.
get_open_orders ==
    IF paper_trading THEN {}
    ELSE {n \in 1..Len(orders) : orders[n].status = "open"}

\* ------------------------------------------------------------- persistence

\* The state dictionary _save_state writes: stats, strategy_state and
\* connectivity.failure_count.  notified_orders is no part of it.
Snapshot(trades, fills, failures, trailing) ==
    [kind |-> "state", total_trades |-> trades, strategy_fills |-> fills,
     failure_count |-> failures, trailing_state |-> trailing]

\* _save_state: the new file content; a write error is caught and logged.
SavedState(ok, trades, fills, failures, trailing) ==
    IF ok THEN Snapshot(trades, fills, failures, trailing) ELSE disk

\* ------------------------------------------------------------------ history

Count(id) == IF id \in DOMAIN delivered THEN delivered[id] ELSE 0

\* strategy.on_order_filled(order) was called with this id.
Deliver(id) ==
    [x \in DOMAIN delivered \cup {id} |->
        IF x = id THEN Count(id) + 1 ELSE delivered[x]]

TotalPlaced ==
    IF paper_trading THEN total_trades ELSE Len(orders)

Alive == {w \in Workers : wpc[w] # "dead"}

\* No trailing method has been called on the strategy.
NoCall == [seq |-> 0, op |-> "none", price |-> 0, was |-> "inactive",
           result |-> FALSE, best |-> 0]

\* Python's None where a DataFrame or a dict is expected.
NoWindow == [kind |-> "None"]
NoPending == [status |-> "None"]

\* DCAStrategy.__init__: the fields on_order_filled and analyze assign.
\* None is 0 for a time and <<0, 1>> for a price, as falsy as None is.
NewDca ==
    [last_purchase_time |-> 0, last_purchase_price |-> <<0, 1>>,
     total_purchased |-> <<0, 1>>, total_spent |-> <<0, 1>>,
     purchase_count |-> 0, pending_sell_order |-> NoPending,
     ohlcv_cache |-> NoWindow, ohlcv_cache_time |-> 0]

NoAnalyze == [ohlcv |-> NoWindow, signal |-> [action |-> "none"]]

\* GridTradingStrategy.__init__: no grid orders, current_price None (Zero).
NewGrid == [grid_orders |-> <<>>, current_price |-> <<0, 1>>]
NoGridCall == [op |-> "none", n |-> 0]
NotRestored == [done |-> FALSE]

\* The strategy object and the files as the constructors leave them.
\* BacktestEngine.__init__; amounts of money are exact rationals <<n, d>>.
NewEngine(initial) ==
    [initial_balance |-> initial, balance |-> initial, position |-> <<0, 1>>,
     position_cost |-> <<0, 1>>, trades |-> <<>>, equity_curve |-> <<>>]

\* No run() has returned.
NoResults == [done |-> FALSE]

\* A strategy instance's OHLCV cache after __init__, and the run it is in.
NewRun == [engine |-> NewEngine(<<10000, 1>>), candle |-> 0, ohlcv_cache |-> 0]

FreshInit ==
    /\ trailing_call = NoCall
    /\ purchases = <<>>
    /\ total_profit = <<0, 1>>
    /\ total_dca_applied = <<0, 1>>
    /\ ledger_fills = 0
    /\ last_order = [side |-> "none"]
    /\ inodes = <<>>
    /\ temp_file = 0
    /\ state_file = 0
    /\ saver = [t \in {"worker", "control"} |->
                  [pc |-> "idle", fd |-> 0, pos |-> 0, snap |-> 0]]
    /\ saves = 0
    /\ crashed = FALSE
    /\ purchase_number = 1
    /\ required_step = <<0, 1>>
    /\ bt_signals = <<>>
    /\ bt_reported = 0
    /\ results = NoResults
    /\ replay = [r \in {1, 2} |-> NewRun]
    /\ placed_orders = <<>>
    /\ waits = <<>>
    /\ dca_fields = NewDca
    /\ clock = 1
    /\ analyze_call = NoAnalyze
    /\ restored = NotRestored
    /\ grid = NewGrid
    /\ grid_call = NoGridCall

\* params.get('step_down_multiplier', 1.5), params.get('max_step_down', 5.0)
\* and the profit target of the DCA configurations, in percent.
DefaultStepParams ==
    [min_profit_percent |-> <<1, 2>>, step_down_multiplier |-> <<3, 2>>,
     max_step_down |-> <<5, 1>>]

\* The configuration of the parts a specification leaves alone.
StepDefault == step_params = DefaultStepParams

\* The indicators of the configuration, in the order analyze() asks them.
IndicatorNames == <<"rsi", "stoch_rsi", "ema", "macd", "mfi", "price_drop">>
Indicators == {IndicatorNames[i] : i \in 1..MaxIndicators}

\* use_rsi, use_stoch_rsi, ... all True, params.get('indicator_agreement',
\* 0.6) and params.get('max_purchases', -1)
DefaultStrategyParams ==
    [enabled |-> Indicators, indicator_agreement |-> <<3, 5>>,
     max_purchases |-> -1]

DefaultStrategy == strategy_params = DefaultStrategyParams

BacktestDefault ==
    /\ backtest = NewEngine(<<10000, 1>>)
    /\ bars = <<>>
    /\ variant = "dca"

\* The BotInstance after an initialize() that returned True.
Initialized ==
    /\ strategy_name = "dca"
    /\ exchange = TRUE
    /\ strategy = "dca"
    /\ initialize_result = "True"
    /\ start_refused = FALSE

DefaultConfig ==
    StepDefault /\ DefaultStrategy /\ BacktestDefault /\ Initialized

AuxInit ==
    /\ FreshInit
    /\ fee_percent = 0
    /\ DefaultConfig

\* BotInstance.__init__ and initialize() on a configuration without saved
\* state.
BotInit ==
    /\ paper_trading \in BOOLEAN
    /\ running = FALSE
    /\ paused = FALSE
    /\ thread = 0
    /\ total_trades = 0
    /\ connectivity_failures = 0
    /\ notified_orders = {}
    /\ wpc = [w \in Workers |-> "dead"]
    /\ wsignal = [w \in Workers |-> NoSignal]
    /\ cpc = "idle"
    /\ connected = TRUE
    /\ orders = <<>>
    /\ hash_seed = 0
    /\ strategy_fills = 0
    /\ trailing_state = InactiveTrailing
    /\ disk = NoFile
    /\ delivered = <<>>
    /\ delivered_before = <<>>
    /\ restarts = 0
    /\ last_error = NoError

Init == AuxInit /\ BotInit

\* ------------------------------------------------------------ the run loop

\* reset_trailing that clears the status and keeps the other fields.
reset_trailing_status_only(ts) == [ts EXCEPT !.status = "inactive"]

\* strategy.reset_trailing(): DCAStrategy and AdvancedDCAStrategy alike.
reset_trailing(ts) ==
    IF ts.status # "inactive" THEN InactiveTrailing ELSE ts

\* The signals strategy.analyze may return: hold, or buy/sell with
\* metadata price and amount (price 0 stands for missing metadata).
Signals ==
    {NoSignal} \cup {[action |-> a, price |-> p] : a \in Sides, p \in Prices}

\* _run_loop, `except Exception`: the counter after the handler ran.
LoopHandlerFailures(n) == n + 1

\* _run_loop, `except Exception`: the thread logs, counts the failure,
\* calls on_error when one is set, sleeps the backoff time and goes on with
\* the loop.  cbok: no on_error is set, or it returned; an exception of
\* on_error leaves the handler and _run_loop, and the thread ends.
LoopHandler(w, stage, cbok) ==
    /\ connectivity_failures < MaxFailures
    /\ connectivity_failures' = LoopHandlerFailures(connectivity_failures)
    /\ wpc' = [wpc EXCEPT ![w] = IF cbok THEN "backoff" ELSE "dead"]
    /\ last_error' = stage

\* `while self.running:` and the pause check at the top of an iteration.
LoopTopTargetUnpaused ==
    IF ~running THEN "dead" ELSE "conn"

LoopTopTarget ==
    IF ~running THEN "dead" ELSE IF paused THEN "paused" ELSE "conn"

LoopTop(w) ==
    /\ wpc[w] = "top"
    /\ wpc' = [wpc EXCEPT ![w] = LoopTopTarget]
    /\ last_error' = NoError
    /\ UNCHANGED <<paper_trading, running, paused, thread, total_trades,
                   connectivity_failures, notified_orders, wsignal, cpc,
                   connected, orders, hash_seed, strategy_fills, disk,
                   delivered, delivered_before, restarts, trailing_state>>
    /\ UNCHANGED auxVars

\* The periodic connectivity probe, _check_connectivity.  due: the check
\* interval has elapsed; ok: the socket connected; saveok: the state write
\* of _reset_trailing_state succeeded.
ConnCheck(w, due, ok, saveok) ==
    /\ wpc[w] = "conn"
    /\ IF ~due
       THEN /\ wpc' = [wpc EXCEPT ![w] = "fetch"]
            /\ last_error' = NoError
            /\ UNCHANGED <<connectivity_failures, trailing_state, disk>>
       ELSE IF ok
       THEN /\ connectivity_failures' = 0
            /\ wpc' = [wpc EXCEPT ![w] = "fetch"]
            /\ last_error' = NoError
            /\ UNCHANGED <<trailing_state, disk>>
       ELSE /\ connectivity_failures < MaxFailures
            /\ connectivity_failures' = connectivity_failures + 1
            /\ IF connectivity_failures' >= max_connectivity_failures
               THEN /\ trailing_state' = reset_trailing(trailing_state)
                    /\ disk' = SavedState(saveok, total_trades, strategy_fills,
                                          connectivity_failures',
                                          trailing_state')
               ELSE UNCHANGED <<trailing_state, disk>>
            /\ wpc' = [wpc EXCEPT ![w] = "backoff"]
            /\ last_error' = "conn"
    /\ UNCHANGED <<paper_trading, running, paused, thread, total_trades,
                   notified_orders, wsignal, cpc, connected, orders,
                   hash_seed, strategy_fills, delivered, delivered_before,
                   restarts>>
    /\ UNCHANGED auxVars

\* exchange.get_market_data: fetch_ticker on the ccxt object, which is None
\* after disconnect(); an error reaches the loop's handler.
FetchMarketData(w, ok, cbok) ==
    /\ wpc[w] = "fetch"
    /\ IF ok /\ connected
       THEN /\ connectivity_failures' = 0
            /\ wpc' = [wpc EXCEPT ![w] = "reconcile"]
            /\ last_error' = NoError
       ELSE LoopHandler(w, "fetch", cbok)
    /\ UNCHANGED <<paper_trading, running, paused, thread, total_trades,
                   notified_orders, wsignal, cpc, connected, orders,
                   hash_seed, strategy_fills, disk, delivered,
                   delivered_before, restarts, trailing_state>>
    /\ UNCHANGED auxVars

\* _check_filled_orders raises inside its try block: get_open_orders fails
\* (no connection), or it returns a non-empty list and the loop header
\* `open_orders.keys()` raises AttributeError, a list having no keys().
ReconcileRaises(ok) ==
    /\ ~paper_trading
    /\ \/ ~(ok /\ connected)
       \/ get_open_orders # {}

\* _check_filled_orders: every path leaves the bot's state as it was; an
\* error is caught and logged by the method itself.
CheckFilledOrders(w, ok) ==
    /\ wpc[w] = "reconcile"
    /\ wpc' = [wpc EXCEPT ![w] = "analyze"]
    /\ last_error' = IF ReconcileRaises(ok)
                     THEN "reconcile" ELSE NoError
    /\ UNCHANGED <<paper_trading, running, paused, thread, total_trades,
                   connectivity_failures, notified_orders, wsignal, cpc,
                   connected, orders, hash_seed, strategy_fills, disk,
                   delivered, delivered_before, restarts, trailing_state>>
    /\ UNCHANGED auxVars

\* strategy.analyze and the dispatch on signal['action'].  A buy or sell
\* signal is drawn only while the behaviour's order budget lasts.
Analyze(w, sig, ok, cbok) ==
    /\ wpc[w] = "analyze"
    /\ (sig.price # 0) => TotalPlaced < MaxTrades
    /\ IF ok
       THEN \* hold is logged; _execute_buy and _execute_sell return at
            \* once on `if not price or not amount`.
            /\ wpc' = [wpc EXCEPT ![w] =
                        IF sig.action = "hold" \/ sig.price = 0
                        THEN "autosave" ELSE "execute"]
            /\ wsignal' = [wsignal EXCEPT ![w] =
                            IF sig.price = 0 THEN NoSignal ELSE sig]
            /\ last_error' = NoError
            /\ UNCHANGED connectivity_failures
       ELSE /\ LoopHandler(w, "analyze", cbok)
            /\ UNCHANGED wsignal
    /\ UNCHANGED <<paper_trading, running, paused, thread, total_trades,
                   notified_orders, cpc, connected, orders, hash_seed,
                   strategy_fills, disk, delivered, delivered_before,
                   restarts, trailing_state>>
    /\ UNCHANGED auxVars

\* _execute_buy / _execute_sell, `except Exception`: a failed place_order is
\* logged by the method; the iteration goes on to the auto-save.
OrderErrorFailures(n) == n

\* _execute_buy / _execute_sell: does the method look the id up in
\* notified_orders before it notifies the strategy?  It does not.
ExecuteSkipsNotified(id) == FALSE

\* _execute_buy / _execute_sell.  ok: place_order returned; status: the
\* status of the returned order; fillok: strategy.on_order_filled returned
\* (DCAStrategy books a paper fill and then raises while logging it);
\* saveok: the state write succeeded.
ExecuteSignal(w, ok, status, fillok, saveok) ==
    /\ wpc[w] = "execute"
    /\ wpc' = [wpc EXCEPT ![w] = "autosave"]
    /\ wsignal' = [wsignal EXCEPT ![w] = NoSignal]
    /\ LET sig == wsignal[w]
           placed == paper_trading \/ (ok /\ connected)
           closed == paper_trading \/ status = "closed"
           id == IF paper_trading THEN PaperOrderId(sig.action, sig.price)
                 ELSE LiveOrderId(Len(orders) + 1)
       IN IF ~placed
          THEN /\ connectivity_failures' =
                      OrderErrorFailures(connectivity_failures)
               /\ last_error' = "order"
               /\ UNCHANGED <<total_trades, notified_orders, orders,
                              strategy_fills, disk, delivered>>
          ELSE /\ TotalPlaced < MaxTrades
               /\ total_trades' = total_trades + 1
               /\ orders' = IF paper_trading THEN orders
                            ELSE Append(orders, [status |-> status])
               /\ UNCHANGED connectivity_failures
               /\ IF closed /\ ~ExecuteSkipsNotified(id) /\ ~fillok
                  THEN /\ delivered' = Deliver(id)
                       /\ strategy_fills' = strategy_fills + 1
                       /\ last_error' = "order"
                       /\ UNCHANGED <<notified_orders, disk>>
                  ELSE IF closed /\ ~ExecuteSkipsNotified(id)
                  THEN /\ delivered' = Deliver(id)
                       /\ strategy_fills' = strategy_fills + 1
                       /\ notified_orders' = notified_orders \cup {id}
                       /\ disk' = SavedState(saveok, total_trades',
                                             strategy_fills',
                                             connectivity_failures,
                                             trailing_state)
                       /\ last_error' = IF saveok THEN NoError
                                        ELSE "save"
                  ELSE /\ last_error' = NoError
                       /\ UNCHANGED <<delivered, strategy_fills,
                                      notified_orders, disk>>
    /\ UNCHANGED <<paper_trading, running, paused, thread, cpc, connected,
                   hash_seed, delivered_before, restarts, trailing_state>>
    /\ UNCHANGED auxVars

\* _auto_save_if_needed.  due: save_interval has elapsed.
AutoSave(w, due, saveok) ==
    /\ wpc[w] = "autosave"
    /\ wpc' = [wpc EXCEPT ![w] = "sleep"]
    /\ disk' = IF due
               THEN SavedState(saveok, total_trades, strategy_fills,
                               connectivity_failures, trailing_state)
               ELSE disk
    /\ last_error' = IF due /\ ~saveok
                     THEN "save" ELSE NoError
    /\ UNCHANGED <<paper_trading, running, paused, thread, total_trades,
                   connectivity_failures, notified_orders, wsignal, cpc,
                   connected, orders, hash_seed, strategy_fills, delivered,
                   delivered_before, restarts, trailing_state>>
    /\ UNCHANGED auxVars

\* time.sleep(check_interval), time.sleep(backoff_time) and the
\* time.sleep(1) of a paused iteration return.
WakeUp(w) ==
    /\ wpc[w] \in {"sleep", "backoff", "paused"}
    /\ wpc' = [wpc EXCEPT ![w] = "top"]
    /\ last_error' = NoError
    /\ UNCHANGED <<paper_trading, running, paused, thread, total_trades,
                   connectivity_failures, notified_orders, wsignal, cpc,
                   connected, orders, hash_seed, strategy_fills, disk,
                   delivered, delivered_before, restarts, trailing_state>>
    /\ UNCHANGED auxVars

\* ------------------------------------------------- the controlling thread

\* The slot the thread of the next start() takes.
FreeSlot == CHOOSE w \in Workers : wpc[w] = "dead" /\
                                    \A v \in Workers : wpc[v] = "dead" => w <= v

\* start() refuses only when self.running is set; a thread that is still
\* alive after stop() does not hold it back.
StartRefuses == running

\* BotInstance.start(): sets running and spawns a thread on _run_loop.
Start ==
    /\ cpc = "idle"
    /\ ~StartRefuses
    /\ \E w \in Workers : wpc[w] = "dead"
    /\ running' = TRUE
    /\ thread' = FreeSlot
    /\ wpc' = [wpc EXCEPT ![FreeSlot] = "top"]
    /\ last_error' = NoError
    /\ UNCHANGED <<paper_trading, paused, total_trades, connectivity_failures,
                   notified_orders, wsignal, cpc, connected, orders,
                   hash_seed, strategy_fills, disk, delivered,
                   delivered_before, restarts, trailing_state>>
    /\ UNCHANGED auxVars

\* BotInstance.stop(), first half: clears running and enters the join.
StopBegin ==
    /\ cpc = "idle"
    /\ running' = FALSE
    /\ cpc' = "join"
    /\ last_error' = NoError
    /\ UNCHANGED <<paper_trading, paused, thread, total_trades,
                   connectivity_failures, notified_orders, wpc, wsignal,
                   connected, orders, hash_seed, strategy_fills, disk,
                   delivered, delivered_before, restarts, trailing_state>>
    /\ UNCHANGED auxVars

\* BotInstance.stop(), second half: thread.join(timeout=5) has returned, the
\* thread having exited or not; then the final _save_state and disconnect().
StopFinish(saveok) ==
    /\ cpc = "join"
    /\ cpc' = "idle"
    /\ disk' = SavedState(saveok, total_trades, strategy_fills,
                          connectivity_failures, trailing_state)
    /\ connected' = FALSE
    /\ last_error' = NoError
    /\ UNCHANGED <<paper_trading, running, paused, thread, total_trades,
                   connectivity_failures, notified_orders, wpc, wsignal,
                   orders, hash_seed, strategy_fills, delivered,
                   delivered_before, restarts, trailing_state>>
    /\ UNCHANGED auxVars

\* BotInstance.pause() and resume().
SetPaused(flag) ==
    /\ cpc = "idle"
    /\ paused' = flag
    /\ last_error' = NoError
    /\ UNCHANGED <<paper_trading, running, thread, total_trades,
                   connectivity_failures, notified_orders, wpc, wsignal, cpc,
                   connected, orders, hash_seed, strategy_fills, disk,
                   delivered, delivered_before, restarts, trailing_state>>
    /\ UNCHANGED auxVars

\* The live exchange fills an open order.
ExchangeFills(n) ==
    /\ n \in 1..Len(orders)
    /\ orders[n].status = "open"
    /\ orders' = [orders EXCEPT ![n].status = "closed"]
    /\ last_error' = NoError
    /\ UNCHANGED <<paper_trading, running, paused, thread, total_trades,
                   connectivity_failures, notified_orders, wpc, wsignal, cpc,
                   connected, hash_seed, strategy_fills, disk, delivered,
                   delivered_before, restarts, trailing_state>>
    /\ UNCHANGED auxVars

\* _load_state: what the file restores, a missing file restoring nothing.
Loaded(field, fresh) ==
    IF disk.kind = "state" THEN disk[field] ELSE fresh

\* A new BotInstance with the same bot_id, then initialize(): after stop()
\* in the same process once every thread has exited, or (crash) at any time
\* in a new process, whose str hashes differ.  __init__ builds the fields,
\* _init_exchange connects, _load_state restores from the file.
NewInstance(crash) ==
    /\ restarts < MaxRestarts
    /\ crash \/ (cpc = "idle" /\ ~running /\ Alive = {})
    /\ restarts' = restarts + 1
    /\ hash_seed' = IF crash THEN hash_seed + 1 ELSE hash_seed
    /\ running' = FALSE
    /\ paused' = FALSE
    /\ thread' = 0
    /\ wpc' = [w \in Workers |-> "dead"]
    /\ wsignal' = [w \in Workers |-> NoSignal]
    /\ cpc' = "idle"
    /\ connected' = TRUE
    /\ notified_orders' = {}
    /\ total_trades' = Loaded("total_trades", 0)
    /\ strategy_fills' = Loaded("strategy_fills", 0)
    /\ connectivity_failures' = Loaded("failure_count", 0)
    /\ trailing_state' = Loaded("trailing_state", InactiveTrailing)
    /\ delivered_before' = delivered
    /\ last_error' = NoError
    /\ UNCHANGED <<paper_trading, orders, disk, delivered>>
    /\ UNCHANGED auxVars

WorkerNext(w) ==
    \/ LoopTop(w)
    \/ \E due, ok, saveok \in BOOLEAN : ConnCheck(w, due, ok, saveok)
    \/ \E ok, cbok \in BOOLEAN : FetchMarketData(w, ok, cbok)
    \/ \E ok \in BOOLEAN : CheckFilledOrders(w, ok)
    \/ \E sig \in Signals, ok, cbok \in BOOLEAN : Analyze(w, sig, ok, cbok)
    \/ \E ok, fillok, saveok \in BOOLEAN, status \in {"open", "closed"} :
          ExecuteSignal(w, ok, status, fillok, saveok)
    \/ \E due, saveok \in BOOLEAN : AutoSave(w, due, saveok)
    \/ WakeUp(w)

Next ==
    \/ \E w \in Workers : WorkerNext(w)
    \/ Start
    \/ StopBegin
    \/ \E saveok \in BOOLEAN : StopFinish(saveok)
    \/ \E flag \in BOOLEAN : SetPaused(flag)
    \/ \E n \in 1..MaxTrades : ExchangeFills(n)

Spec == Init /\ [][Next]_vars

\* A thread's steps when every exchange call, strategy call and state write
\* succeeds.
SteadyWorkerNext(w) ==
    \/ LoopTop(w)
    \/ \E due \in BOOLEAN : ConnCheck(w, due, TRUE, TRUE)
    \/ FetchMarketData(w, TRUE, TRUE)
    \/ CheckFilledOrders(w, TRUE)
    \/ \E sig \in Signals : Analyze(w, sig, TRUE, TRUE)
    \/ \E status \in {"open", "closed"} :
          ExecuteSignal(w, TRUE, status, TRUE, TRUE)
    \/ \E due \in BOOLEAN : AutoSave(w, due, TRUE)
    \/ WakeUp(w)

\* The run loop with new BotInstance objects built on the saved state.
\* pause() and resume() are left out and every call succeeds: the sessions
\* run unpaused and undisturbed.
RestartNext ==
    \/ \E w \in Workers : SteadyWorkerNext(w)
    \/ Start
    \/ StopBegin
    \/ \E saveok \in BOOLEAN : StopFinish(saveok)
    \/ \E n \in 1..MaxTrades : ExchangeFills(n)
    \/ \E crash \in BOOLEAN : NewInstance(crash)

RestartSpec == Init /\ [][RestartNext]_vars

\* One session of an initialized BotInstance, from the state start() leaves
\* to its stop(): the thread of that start(), pause() and resume(), stop().
SessionInit ==
    /\ AuxInit
    /\ paper_trading \in BOOLEAN
    /\ running = TRUE
    /\ paused = FALSE
    /\ thread = 1
    /\ total_trades = 0
    /\ connectivity_failures = 0
    /\ notified_orders = {}
    /\ wpc = [w \in Workers |-> IF w = 1 THEN "top" ELSE "dead"]
    /\ wsignal = [w \in Workers |-> NoSignal]
    /\ cpc = "idle"
    /\ connected = TRUE
    /\ orders = <<>>
    /\ hash_seed = 0
    /\ strategy_fills = 0
    /\ trailing_state = InactiveTrailing
    /\ disk = NoFile
    /\ delivered = <<>>
    /\ delivered_before = <<>>
    /\ restarts = 0
    /\ last_error = NoError

SessionNext ==
    \/ \E w \in Workers : WorkerNext(w)
    \/ StopBegin
    \/ \E saveok \in BOOLEAN : StopFinish(saveok)
    \/ \E flag \in BOOLEAN : SetPaused(flag)
    \/ \E n \in 1..MaxTrades : ExchangeFills(n)

SessionSpec == SessionInit /\ [][SessionNext]_vars

\* A session with pause() and resume() in which every exchange call,
\* strategy call and state write succeeds.
PauseNext ==
    \/ \E w \in Workers : SteadyWorkerNext(w)
    \/ StopBegin
    \/ StopFinish(TRUE)
    \/ \E flag \in BOOLEAN : SetPaused(flag)
    \/ \E n \in 1..MaxTrades : ExchangeFills(n)

PauseSpec == SessionInit /\ [][PauseNext]_vars

\* A live session in which every exchange call and every state write
\* succeeds and stop() is not called: the loop keeps iterating.
LiveNext ==
    \/ \E w \in Workers : SteadyWorkerNext(w)
    \/ \E n \in 1..MaxTrades : ExchangeFills(n)

LiveInit == SessionInit /\ ~paper_trading

LiveSpec ==
    /\ LiveInit
    /\ [][LiveNext]_vars
    /\ WF_vars(\E w \in Workers : SteadyWorkerNext(w))

\* ------------------------------------------------- trailing state machine
\* DCAStrategy and AdvancedDCAStrategy carry the same three methods.  None
\* is 0 here, prices are positive and time.time() is the number of the call.

TrailPrices == 1..MaxPrice
TrailPercents == {25, 50}
Directions == {"up", "down"}

start_trailing(direction, activation_price, trailing_percent, t) ==
    [status |-> "waiting", direction |-> direction,
     activation_price |-> activation_price, watermark |-> 0,
     trailing_percent |-> trailing_percent, last_update |-> t]

\* Activation whatever the price is.
ActivatesAlways(ts, current_price) == ts.direction \in Directions

\* update_trailing, status 'waiting': the price reached activation_price.
Activates(ts, current_price) ==
    \/ ts.direction = "up" /\ current_price >= ts.activation_price
    \/ ts.direction = "down" /\ current_price <= ts.activation_price

\* update_trailing, status 'active', with a watermark that follows every
\* price.
UpdateActiveFollows(ts, current_price, t) ==
    LET watermark == ts.watermark
        retreat == IF ts.direction = "up" THEN watermark - current_price
                   ELSE current_price - watermark
        followed == [ts EXCEPT !.watermark = current_price,
                               !.last_update = t]
    IN IF retreat * 100 >= ts.trailing_percent * watermark
       THEN [state |-> [followed EXCEPT !.status = "triggered"],
             result |-> TRUE]
       ELSE [state |-> followed, result |-> FALSE]

\* update_trailing, status 'active', triggering only beyond
\* trailing_percent.
UpdateActiveStrict(ts, current_price, t) ==
    LET watermark == ts.watermark
        favour == IF ts.direction = "up" THEN current_price > watermark
                  ELSE current_price < watermark
        retreat == IF ts.direction = "up" THEN watermark - current_price
                   ELSE current_price - watermark
        ratcheted == IF favour
                     THEN [ts EXCEPT !.watermark = current_price,
                                     !.last_update = t]
                     ELSE ts
    IN IF retreat * 100 > ts.trailing_percent * watermark
       THEN [state |-> [ratcheted EXCEPT !.status = "triggered"],
             result |-> TRUE]
       ELSE [state |-> ratcheted, result |-> FALSE]

\* update_trailing, status 'active': the watermark follows a price that
\* moved in the trade's favour; the retreat from the watermark read at
\* entry, in percent of it, is compared with trailing_percent.
UpdateActive(ts, current_price, t) ==
    LET watermark == ts.watermark
        favour == IF ts.direction = "up" THEN current_price > watermark
                  ELSE current_price < watermark
        retreat == IF ts.direction = "up" THEN watermark - current_price
                   ELSE current_price - watermark
        ratcheted == IF favour
                     THEN [ts EXCEPT !.watermark = current_price,
                                     !.last_update = t]
                     ELSE ts
    IN IF retreat * 100 >= ts.trailing_percent * watermark
       THEN [state |-> [ratcheted EXCEPT !.status = "triggered"],
             result |-> TRUE]
       ELSE [state |-> ratcheted, result |-> FALSE]

\* update_trailing with 'triggered' handled as 'active' is.
update_trailing_rearmed(ts, current_price, t) ==
    IF ts.status = "inactive" THEN [state |-> ts, result |-> FALSE]
    ELSE IF ts.status = "waiting"
    THEN [state |-> IF Activates(ts, current_price)
                    THEN [ts EXCEPT !.status = "active",
                                    !.watermark = current_price,
                                    !.last_update = t]
                    ELSE ts,
          result |-> FALSE]
    ELSE UpdateActive(ts, current_price, t)

\* update_trailing(current_price): the new trailing_state and the return
\* value.  A 'triggered' state falls through to the final `return False`.
update_trailing(ts, current_price, t) ==
    IF ts.status = "inactive" THEN [state |-> ts, result |-> FALSE]
    ELSE IF ts.status = "waiting"
    THEN [state |-> IF Activates(ts, current_price)
                    THEN [ts EXCEPT !.status = "active",
                                    !.watermark = current_price,
                                    !.last_update = t]
                    ELSE ts,
          result |-> FALSE]
    ELSE IF ts.status = "active"
    THEN UpdateActive(ts, current_price, t)
    ELSE [state |-> ts, result |-> FALSE]

\* The best price update_trailing has been called with since the trailing
\* order became active: the highest for 'up', the lowest for 'down'.
BestSeen(op, price) ==
    IF op # "update" THEN 0
    ELSE IF trailing_state.status = "waiting"
    THEN IF Activates(trailing_state, price) THEN price ELSE 0
    ELSE IF trailing_state.status = "active"
    THEN IF trailing_state.direction = "up"
         THEN IF price > trailing_call.best THEN price ELSE trailing_call.best
         ELSE IF price < trailing_call.best THEN price ELSE trailing_call.best
    ELSE trailing_call.best

Called(op, price, result) ==
    [seq |-> trailing_call.seq + 1, op |-> op, price |-> price,
     was |-> trailing_state.status, result |-> result,
     best |-> BestSeen(op, price)]

StartTrailing(direction, activation_price, trailing_percent) ==
    /\ trailing_call.seq < MaxCalls
    /\ trailing_state' = start_trailing(direction, activation_price,
                                        trailing_percent,
                                        trailing_call.seq + 1)
    /\ trailing_call' = Called("start", activation_price, FALSE)
    /\ UNCHANGED <<botVars, ledgerVars, fileVars, calcVars>>

UpdateTrailing(current_price) ==
    /\ trailing_call.seq < MaxCalls
    /\ LET r == update_trailing(trailing_state, current_price,
                                trailing_call.seq + 1)
       IN /\ trailing_state' = r.state
          /\ trailing_call' = Called("update", current_price, r.result)
    /\ UNCHANGED <<botVars, ledgerVars, fileVars, calcVars>>

ResetTrailing ==
    /\ trailing_call.seq < MaxCalls
    /\ trailing_state' = reset_trailing(trailing_state)
    /\ trailing_call' = Called("reset", 0, FALSE)
    /\ UNCHANGED <<botVars, ledgerVars, fileVars, calcVars>>

TrailingNext ==
    \/ \E d \in Directions, a \in TrailPrices, tp \in TrailPercents :
          StartTrailing(d, a, tp)
    \/ \E p \in TrailPrices : UpdateTrailing(p)
    \/ ResetTrailing

TrailingSpec == Init /\ [][TrailingNext]_vars

\* ---------------------------------------------------- AdvancedDCA ledger
\* Money and amounts are exact rationals <<numerator, denominator>> in
\* lowest terms with a positive denominator.

RECURSIVE GCD(_, _)
GCD(a, b) == IF b = 0 THEN a ELSE GCD(b, a % b)

Abs(a) == IF a < 0 THEN 0 - a ELSE a

Norm(n, d) ==
    LET g == GCD(Abs(n), Abs(d))
        sgn == IF d < 0 THEN 0 - 1 ELSE 1
    IN <<sgn * (n \div g), sgn * (d \div g)>>

R(i) == <<i, 1>>
Zero == R(0)
One == R(1)

RAdd(x, y) ==
    LET g == GCD(x[2], y[2])
    IN Norm(x[1] * (y[2] \div g) + y[1] * (x[2] \div g), (x[2] \div g) * y[2])

RNeg(x) == <<0 - x[1], x[2]>>
RSub(x, y) == RAdd(x, RNeg(y))

RMul(x, y) ==
    LET a == Norm(x[1], y[2])
        b == Norm(y[1], x[2])
    IN Norm(a[1] * b[1], a[2] * b[2])

RDiv(x, y) == RMul(x, Norm(y[2], y[1]))

RLess(x, y) == RSub(x, y)[1] < 0
RLeq(x, y) == RSub(x, y)[1] <= 0

\* params.get('min_profit_percent', 0.5) / 100
min_profit_percent == Norm(1, 200)
\* params.get('dca_pool_percent', 100) / 100
dca_pool_percent == One
\* the 0.2% buffer added to the profit target
buffer == Norm(2, 1000)

Amounts == 1..MaxAmount
LedgerPrices == {10, 20}
\* Fee rates of a live exchange, in percent; whole fees on LedgerPrices.
FeePercents == {0, 10}

\* CCXTExchange.place_order, paper mode: the synthetic closed order.  It
\* carries neither 'cost' nor 'fee'.
PaperOrder(side, amount, price) ==
    [id |-> <<"paper", side, amount, price>>, side |-> side,
     amount |-> R(amount), price |-> R(price), status |-> "closed",
     filled |-> R(amount)]

\* A closed order of the live exchange: ccxt's unified order structure.
LiveOrder(n, side, amount, price, fee) ==
    [id |-> <<"live", n>>, side |-> side, amount |-> R(amount),
     price |-> R(price), status |-> "closed", filled |-> R(amount),
     cost |-> R(amount * price), fee |-> R(fee)]

\* The closed orders the bot may hand to on_order_filled.
FilledOrders ==
    IF paper_trading
    THEN {PaperOrder(sd, a, p) : sd \in Sides, a \in Amounts, p \in LedgerPrices}
    ELSE {LiveOrder(ledger_fills + 1, sd, a, p,
                    (a * p * fee_percent) \div 100) :
             sd \in Sides, a \in Amounts, p \in LedgerPrices}

\* order.get(key, 0); for 'fee', order.get('fee', {}).get('cost', 0).
Get(order, key) == IF key \in DOMAIN order THEN order[key] ELSE Zero

\* _handle_buy_filled: the purchase appended to self.purchases.
NewPurchase(order) ==
    LET cost == Get(order, "cost")
        amount == Get(order, "filled")
        fee == Get(order, "fee")
    IN [buy_order_id |-> order.id, cost |-> cost, amount |-> amount,
        price |-> Get(order, "price"), fee |-> fee,
        sell_price |-> RMul(RDiv(RAdd(cost, fee), amount),
                            RAdd(RAdd(One, min_profit_percent), buffer)),
        dca_applied |-> Zero]

\* _handle_sell_filled with a loop that pops the first purchase whatever
\* its amount.
SoldIndexFirst(ps, sold_amount) == IF Len(ps) > 0 THEN 1 ELSE 0

\* _handle_sell_filled: the first purchase whose amount matches the sold
\* amount (amounts are whole lots, far apart against the 1e-10 tolerance);
\* 0 when none matches.
SoldIndex(ps, sold_amount) ==
    IF \E i \in 1..Len(ps) : ps[i].amount = sold_amount
    THEN CHOOSE i \in 1..Len(ps) :
            /\ ps[i].amount = sold_amount
            /\ \A j \in 1..(i - 1) : ps[j].amount # sold_amount
    ELSE 0

\* self.purchases.pop(i)
Pop(ps, i) == [j \in 1..(Len(ps) - 1) |-> IF j < i THEN ps[j] ELSE ps[j + 1]]

\* _handle_sell_filled: the profit shares of a sale.
DcaToAdd(sold, order) ==
    LET total == RSub(RSub(Get(order, "cost"), Get(order, "fee")), sold.cost)
        leftover == RSub(total, RMul(min_profit_percent, sold.cost))
    IN IF RLess(Zero, leftover) THEN RMul(leftover, dca_pool_percent) ELSE Zero

\* _apply_dca_to_previous with the amount added to the cost.
ReallocatedUp(prev, dca_amount) ==
    LET new_cost == RAdd(prev.cost, dca_amount)
        adj_profit == RAdd(min_profit_percent, buffer)
        amount_and_profit == RMul(RAdd(One, adj_profit),
                                  RAdd(new_cost, RMul(R(2), prev.fee)))
    IN [prev EXCEPT !.cost = new_cost,
                    !.sell_price = RDiv(amount_and_profit, prev.amount),
                    !.dca_applied = RAdd(prev.dca_applied, dca_amount)]

\* _apply_dca_to_previous: the last remaining purchase after the
\* reallocation of dca_amount.
Reallocated(prev, dca_amount) ==
    LET new_cost == RSub(prev.cost, dca_amount)
        adj_profit == RAdd(min_profit_percent, buffer)
        amount_and_profit == RMul(RAdd(One, adj_profit),
                                  RAdd(new_cost, RMul(R(2), prev.fee)))
    IN [prev EXCEPT !.cost = new_cost,
                    !.sell_price = RDiv(amount_and_profit, prev.amount),
                    !.dca_applied = RAdd(prev.dca_applied, dca_amount)]

\* _apply_dca_to_previous with a first line `prev_purchase = self.purchases[0]`.
DcaTargetFirst(ps) == 1

\* _apply_dca_to_previous: the purchase it works on, self.purchases[-1].
DcaTarget(ps) == Len(ps)

\* on_order_filled, side 'buy'.
BuyFilled(order) ==
    /\ order.side = "buy"
    /\ ledger_fills < MaxFills
    /\ Len(purchases) < MaxPurchases
    /\ purchases' = Append(purchases, NewPurchase(order))
    /\ ledger_fills' = ledger_fills + 1
    /\ last_order' = order
    /\ UNCHANGED fee_percent
    /\ UNCHANGED <<total_profit, total_dca_applied>>
    /\ UNCHANGED <<botVars, trailing_state, trailing_call, fileVars, calcVars>>

\* on_order_filled, side 'sell'.
SellFilled(order) ==
    /\ order.side = "sell"
    /\ ledger_fills < MaxFills
    /\ ledger_fills' = ledger_fills + 1
    /\ last_order' = order
    /\ UNCHANGED fee_percent
    /\ LET i == SoldIndex(purchases, Get(order, "amount"))
       IN IF i = 0
          THEN UNCHANGED <<purchases, total_profit, total_dca_applied>>
          ELSE LET sold == purchases[i]
                   rest == Pop(purchases, i)
                   dca == DcaToAdd(sold, order)
               IN /\ total_profit' =
                        RAdd(total_profit,
                             RSub(RSub(Get(order, "cost"), Get(order, "fee")),
                                  sold.cost))
                  /\ IF RLess(Zero, dca) /\ Len(rest) > 0
                     THEN /\ purchases' =
                                [rest EXCEPT ![DcaTarget(rest)] =
                                    Reallocated(rest[DcaTarget(rest)], dca)]
                          /\ total_dca_applied' = RAdd(total_dca_applied, dca)
                     ELSE /\ purchases' = rest
                          /\ UNCHANGED total_dca_applied
    /\ UNCHANGED <<botVars, trailing_state, trailing_call, fileVars, calcVars>>

LedgerNext ==
    \/ \E order \in FilledOrders : BuyFilled(order)
    \/ \E order \in FilledOrders : SellFilled(order)

\* A fresh strategy on an exchange of any fee rate.
LedgerInit ==
    /\ FreshInit
    /\ fee_percent \in FeePercents
    /\ DefaultConfig
    /\ BotInit

LedgerSpec == LedgerInit /\ [][LedgerNext]_vars

\* ------------------------------------------------ the state file, stepwise
\* _save_state as the operating system sees it: open(temp_file, 'w'), the
\* writes of json.dump as the buffer flushes them, close, then
\* temp_file.replace(state_file).  The thread of _run_loop and the thread
\* calling stop() both run it, on the same two paths.

SaveThreads == {"worker", "control"}

\* What one flush writes: part k of the JSON text of snapshot snap.
Chunk(snap, k) == [snap |-> snap, part |-> k]
Hole == Chunk(0, 0)

\* write(2) at offset pos of a file with content c.
WriteAt(c, pos, chunk) ==
    IF pos < Len(c) THEN [c EXCEPT ![pos + 1] = chunk]
    ELSE c \o [k \in 1..(pos - Len(c)) |-> Hole] \o <<chunk>>

\* The file holds the whole JSON text of one snapshot and nothing else.
Whole(c) ==
    /\ Len(c) = NumChunks
    /\ \A k \in 1..NumChunks : c[k] = Chunk(c[1].snap, k)

\* open(temp_file, 'w'): creates the file or truncates the one there.
SaveOpen(t) ==
    /\ ~crashed
    /\ saver[t].pc = "idle"
    /\ saves < MaxSaves
    /\ saves' = saves + 1
    /\ IF temp_file = 0
       THEN /\ inodes' = Append(inodes, <<>>)
            /\ temp_file' = Len(inodes) + 1
       ELSE /\ inodes' = [inodes EXCEPT ![temp_file] = <<>>]
            /\ UNCHANGED temp_file
    /\ saver' = [saver EXCEPT ![t] = [pc |-> "open", fd |-> temp_file',
                                      pos |-> 0, snap |-> saves']]
    /\ UNCHANGED <<state_file, crashed>>
    /\ UNCHANGED <<botVars, trailing_state, trailing_call, ledgerVars, calcVars>>

\* json.dump(state, f): one flush of the buffer; the last one is followed
\* by the close at the end of the with block.
SaveWrite(t) ==
    /\ ~crashed
    /\ saver[t].pc = "open"
    /\ LET sv == saver[t]
       IN /\ inodes' = [inodes EXCEPT ![sv.fd] =
                          WriteAt(@, sv.pos, Chunk(sv.snap, sv.pos + 1))]
          /\ saver' = [saver EXCEPT ![t].pos = sv.pos + 1,
                                    ![t].pc = IF sv.pos + 1 = NumChunks
                                              THEN "closed" ELSE "open"]
    /\ UNCHANGED <<temp_file, state_file, saves, crashed>>
    /\ UNCHANGED <<botVars, trailing_state, trailing_call, ledgerVars, calcVars>>

\* A write raises (disk full): the with block closes the file, the
\* exception is logged, temp_file stays behind.
SaveFails(t) ==
    /\ ~crashed
    /\ saver[t].pc = "open"
    /\ saver' = [saver EXCEPT ![t] = [pc |-> "idle", fd |-> 0, pos |-> 0,
                                      snap |-> 0]]
    /\ UNCHANGED <<inodes, temp_file, state_file, saves, crashed>>
    /\ UNCHANGED <<botVars, trailing_state, trailing_call, ledgerVars, calcVars>>

\* temp_file.replace(state_file): rename(2); FileNotFoundError, caught and
\* logged, when another thread has renamed temp_file away.
SaveReplace(t) ==
    /\ ~crashed
    /\ saver[t].pc = "closed"
    /\ saver' = [saver EXCEPT ![t] = [pc |-> "idle", fd |-> 0, pos |-> 0,
                                      snap |-> 0]]
    /\ IF temp_file = 0
       THEN UNCHANGED <<temp_file, state_file>>
       ELSE /\ state_file' = temp_file
            /\ temp_file' = 0
    /\ UNCHANGED <<inodes, saves, crashed>>
    /\ UNCHANGED <<botVars, trailing_state, trailing_call, ledgerVars, calcVars>>

\* The process dies; the files stay as they are.
Crash ==
    /\ ~crashed
    /\ crashed' = TRUE
    /\ UNCHANGED <<inodes, temp_file, state_file, saver, saves>>
    /\ UNCHANGED <<botVars, trailing_state, trailing_call, ledgerVars, calcVars>>

FileNext ==
    \/ \E t \in SaveThreads : SaveOpen(t)
    \/ \E t \in SaveThreads : SaveWrite(t)
    \/ \E t \in SaveThreads : SaveFails(t)
    \/ \E t \in SaveThreads : SaveReplace(t)
    \/ Crash

FileSpec == Init /\ [][FileNext]_vars

\* ------------------------------------------- the progressive step-down
\* AdvancedDCAStrategy.analyze asks, before every purchase but the first,
\* for a drop of the price below the last purchase's price.  The amounts are
\* exact rationals, in percent.
RECURSIVE RPow(_, _)
RPow(x, k) ==
    IF k = 0 THEN One
    ELSE LET r == RPow(x, k - 1) IN RMul(x, r)

RMin(x, y) == IF RLeq(x, y) THEN x ELSE y

\* Values of 'min_profit_percent', 'step_down_multiplier' and 'max_step_down'
\* a configuration may carry; the constructor takes them as they are.
StepParams ==
    [min_profit_percent : {<<1, 2>>, <<2, 1>>, <<8, 1>>},
     step_down_multiplier : {<<1, 2>>, <<1, 1>>, <<3, 2>>, <<2, 1>>},
     max_step_down : {<<3, 1>>, <<5, 1>>}]

\* self.min_profit_percent = params.get('min_profit_percent', 0.5) / 100
\* self.base_step_down = min(self.min_profit_percent * 100, 5.0)
base_step_down(params) ==
    RMin(RMul(RDiv(params.min_profit_percent, R(100)), R(100)), R(5))

\* The exponent of the multiplier, with the next purchase twice too early.
StepExponentEarly(n) == n - 1

\* purchase_number - 2
StepExponent(n) == n - 2

\* required_step of analyze() for purchase number n >= 2
RequiredStep(params, n) ==
    LET base == base_step_down(params)
        power == RPow(params.step_down_multiplier, StepExponent(n))
        step == RMul(base, power)
    IN RMin(step, params.max_step_down)

\* A buy has been booked: analyze() considers the next purchase,
\* purchase_number = len(self.purchases) + 1.
PurchaseAdded ==
    /\ purchase_number < MaxPurchaseNumber
    /\ purchase_number' = purchase_number + 1
    /\ required_step' = RequiredStep(step_params, purchase_number')
    /\ UNCHANGED <<outsideStep, step_params>>

\* A sell has removed a purchase; with an empty ledger analyze() asks for no
\* drop at all.
PurchaseSold ==
    /\ purchase_number > 1
    /\ purchase_number' = purchase_number - 1
    /\ required_step' = IF purchase_number' = 1 THEN Zero
                        ELSE RequiredStep(step_params, purchase_number')
    /\ UNCHANGED <<outsideStep, step_params>>

StepNext == PurchaseAdded \/ PurchaseSold

StepInit ==
    /\ FreshInit
    /\ fee_percent = 0
    /\ step_params \in StepParams
    /\ DefaultStrategy
    /\ BacktestDefault
    /\ Initialized
    /\ BotInit

StepSpec == StepInit /\ [][StepNext]_vars

\* ------------------------------------------------------ the backtest engine
\* BacktestEngine.run replays the candles of historical_data from index
\* min_lookback on; the model's candles are those, MaxCandles of them:
\* candle 1 is the first one _process_candle sees, and a candle's timestamp
\* is its number.
BtCloses == {R(90), R(100), R(110)}
InitialBalances == {R(10000), R(100)}

\* signal.get('metadata', {}) of the signals a strategy may return
BtMetadata ==
    {[amount |-> One, price |-> R(100)], [amount |-> One], [price |-> R(100)]}

BtSignals ==
    {[action |-> "hold"]}
        \cup {[action |-> "buy", metadata |-> m] : m \in BtMetadata}
        \cup {[action |-> "sell", metadata |-> m] :
                m \in {[amount |-> One, price |-> R(110)], [amount |-> One]}}

\* metadata.get(key, default)
MetaGet(metadata, key, default) ==
    IF key \in DOMAIN metadata THEN metadata[key] ELSE default

\* BacktestEngine._execute_buy without the test `cost > self.balance`.
bt_execute_buy_on_credit(e, signal, market_data) ==
    LET price == MetaGet(signal.metadata, "price", market_data.close)
        amount == MetaGet(signal.metadata, "amount", Zero)
        cost == RMul(amount, price)
        balance == RSub(e.balance, cost)
        position == RAdd(e.position, amount)
        position_cost == RAdd(e.position_cost, cost)
        trade == [timestamp |-> market_data.timestamp, type |-> "buy",
                  price |-> price, amount |-> amount, cost |-> cost,
                  balance |-> balance, position |-> position]
    IN  IF RLeq(amount, Zero) THEN e
        ELSE [e EXCEPT !.balance = balance, !.position = position,
                       !.position_cost = position_cost,
                       !.trades = Append(@, trade)]

\* BacktestEngine._execute_buy
bt_execute_buy(e, signal, market_data) ==
    LET price == MetaGet(signal.metadata, "price", market_data.close)
        amount == MetaGet(signal.metadata, "amount", Zero)
        cost == RMul(amount, price)
        balance == RSub(e.balance, cost)
        position == RAdd(e.position, amount)
        position_cost == RAdd(e.position_cost, cost)
        trade == [timestamp |-> market_data.timestamp, type |-> "buy",
                  price |-> price, amount |-> amount, cost |-> cost,
                  balance |-> balance, position |-> position]
    IN  IF RLeq(amount, Zero) THEN e
        ELSE IF RLess(e.balance, cost) THEN e
        ELSE [e EXCEPT !.balance = balance, !.position = position,
                       !.position_cost = position_cost,
                       !.trades = Append(@, trade)]

\* BacktestEngine._execute_sell
bt_execute_sell(e, signal, market_data) ==
    LET price == MetaGet(signal.metadata, "price", market_data.close)
        amount == MetaGet(signal.metadata, "amount", Zero)
        proceeds == RMul(amount, price)
        balance == RAdd(e.balance, proceeds)
        avg_cost == IF RLess(Zero, e.position)
                    THEN RDiv(e.position_cost, e.position) ELSE Zero
        cost_of_sold == RMul(amount, avg_cost)
        profit == RSub(proceeds, cost_of_sold)
        position == RSub(e.position, amount)
        position_cost == RSub(e.position_cost, cost_of_sold)
        trade == [timestamp |-> market_data.timestamp, type |-> "sell",
                  price |-> price, amount |-> amount, proceeds |-> proceeds,
                  profit |-> profit, balance |-> balance,
                  position |-> position]
    IN  IF RLeq(amount, Zero) THEN e
        ELSE IF RLess(e.position, amount) THEN e
        ELSE [e EXCEPT !.balance = balance, !.position = position,
                       !.position_cost = position_cost,
                       !.trades = Append(@, trade)]

\* An equity that counts the position in units, leaving the price out.
EquityAtPar(balance, position, current_price) == RAdd(balance, position)

\* equity = self.balance + (self.position * current_price)
Equity(balance, position, current_price) ==
    LET value == RMul(position, current_price) IN RAdd(balance, value)

\* BacktestEngine._process_candle, from the signal analyze() returned on
\* to the equity point.
process_candle(e, signal, market_data) ==
    LET after == CASE signal.action = "buy" ->
                        bt_execute_buy(e, signal, market_data)
                   [] signal.action = "sell" ->
                        bt_execute_sell(e, signal, market_data)
                   [] OTHER -> e
        equity == Equity(after.balance, after.position, market_data.close)
        point == [timestamp |-> market_data.timestamp, equity |-> equity,
                  balance |-> after.balance, position |-> after.position,
                  price |-> market_data.close]
    IN  [after EXCEPT !.equity_curve = Append(@, point)]

\* The loop of _calculate_max_drawdown from point i on, with the running
\* maximum and the largest drawdown so far.
RECURSIVE DrawdownFrom(_, _, _, _)
DrawdownFrom(curve, i, max_equity, max_drawdown) ==
    IF i > Len(curve) THEN max_drawdown
    ELSE LET equity == curve[i].equity
             peak == IF RLess(max_equity, equity) THEN equity ELSE max_equity
             fall == RSub(peak, equity)
             share == RDiv(fall, peak)
             drawdown == RMul(share, R(100))
             worst == IF RLess(max_drawdown, drawdown) THEN drawdown
                      ELSE max_drawdown
         IN  DrawdownFrom(curve, i + 1, peak, worst)

\* BacktestEngine._calculate_max_drawdown
calculate_max_drawdown(curve) ==
    IF curve = <<>> THEN Zero
    ELSE DrawdownFrom(curve, 1, curve[1].equity, Zero)

\* BacktestEngine._calculate_results
calculate_results(e) ==
    LET sell_trades == {i \in 1..Len(e.trades) : e.trades[i].type = "sell"}
        winning == {i \in sell_trades : RLess(Zero, e.trades[i].profit)}
        losing == {i \in sell_trades : RLess(e.trades[i].profit, Zero)}
        final == IF e.equity_curve # <<>>
                 THEN e.equity_curve[Len(e.equity_curve)].equity
                 ELSE e.initial_balance
    IN  [done |-> TRUE,
         initial_balance |-> e.initial_balance,
         final_equity |-> final,
         total_return |-> RSub(final, e.initial_balance),
         total_trades |-> Len(e.trades),
         sell_trades |-> Cardinality(sell_trades),
         winning_trades |-> Cardinality(winning),
         losing_trades |-> Cardinality(losing),
         max_drawdown |-> calculate_max_drawdown(e.equity_curve)]

\* One turn of the loop of run(): the strategy under test returns `signal`
\* for the candle closing at `close`.
ProcessCandle(close, signal) ==
    /\ ~results.done
    /\ Len(bt_signals) < MaxCandles
    /\ LET market_data == [timestamp |-> Len(bt_signals) + 1, close |-> close]
       IN  /\ backtest' = process_candle(backtest, signal, market_data)
           /\ bt_signals' = Append(bt_signals,
                                   [signal |-> signal, close |-> close])
    /\ UNCHANGED <<outsideBacktest, bt_reported, results>>

\* The keys of the results dictionary that the summary block of run() reads
\* after _calculate_results has returned, in any order.
SummaryKeys ==
    {"final_equity", "total_profit", "return_pct", "total_trades",
     "winning_trades", "losing_trades", "max_drawdown", "sharpe_ratio"}

\* How run() ends once it holds the dictionary `res`: the summary block
\* indexes the dictionary with each of SummaryKeys, and a key the dictionary
\* lacks raises KeyError before the return statement is reached.
run_summary(res) ==
    IF SummaryKeys \subseteq DOMAIN res THEN "returned" ELSE "KeyError"

\* The dictionary of run() together with the way run() ended.
RunOutcome(res) ==
    [k \in DOMAIN res \cup {"ended"} |->
        IF k = "ended" THEN run_summary(res) ELSE res[k]]

\* The candles are used up: run() computes the results and enters its
\* summary block, which ends the call.
RunEnds ==
    /\ ~results.done
    /\ Len(bt_signals) = MaxCandles
    /\ results' = RunOutcome(calculate_results(backtest))
    /\ UNCHANGED <<outsideBacktest, backtest, bt_signals, bt_reported>>

BacktestNext ==
    \/ \E close \in BtCloses, signal \in BtSignals : ProcessCandle(close, signal)
    \/ RunEnds

BacktestInit ==
    /\ FreshInit
    /\ fee_percent = 0
    /\ StepDefault
    /\ DefaultStrategy
    /\ \E initial \in InitialBalances : backtest = NewEngine(initial)
    /\ bars = <<>>
    /\ variant = "dca"
    /\ Initialized
    /\ BotInit
    /\ paper_trading

BacktestSpec == BacktestInit /\ [][BacktestNext]_vars

\* ----------------------------------------------- two backtests, same bars
\* Two runs of the engine, each with a new BacktestEngine and a new strategy
\* built from the same configuration, over the same historical_data.  The
\* configuration enables the price-drop indicator alone.  bars[1] is the
\* close of the candle before the first one run() processes, so that the
\* window of candle i ends at bars[i + 1]; a window is named by the index
\* of its last close.
ReplayCloses == {R(100), R(110)}
Variants == {"dca", "advanced_dca"}

\* params.get('amount_usd', 100)
amount_usd == R(100)
\* price_drop: lookback_candles and percent of the configuration
price_drop_lookback == 2
price_drop_percent == One

\* TechnicalIndicators.has_price_dropped on the window df
has_price_dropped(df) ==
    LET current_price == bars[df]
        past_price == bars[df - (price_drop_lookback - 1)]
        change == RSub(current_price, past_price)
        share == RDiv(change, past_price)
        percent_change == RMul(share, R(100))
    IN  RLeq(percent_change, RNeg(price_drop_percent))

\* DCAStrategy._get_ohlcv_data: the cached window while it is younger than
\* indicator_cache_ttl seconds of time.time(), else the window of
\* market_data; AdvancedDCAStrategy.analyze reads market_data['ohlcv'].
get_ohlcv_data(cache, window, expired) ==
    IF variant = "dca" /\ cache # 0 /\ ~expired THEN cache ELSE window

\* analyze() of both strategies on a strategy that has booked no fill: buy
\* amount_usd at the current price when the indicator agrees, else hold.
replay_analyze(df, current_price) ==
    IF has_price_dropped(df)
    THEN [action |-> "buy",
          metadata |-> [price |-> current_price,
                        amount |-> RDiv(amount_usd, current_price)]]
    ELSE [action |-> "hold"]

\* Run r processes its next candle; `expired` tells whether time.time() has
\* moved indicator_cache_ttl seconds past the caching of the window.
ReplayCandle(r, expired) ==
    /\ replay[r].candle < MaxCandles
    /\ r = 2 => replay[1].candle = MaxCandles
    /\ LET run == replay[r]
           window == run.candle + 2
           df == get_ohlcv_data(run.ohlcv_cache, window, expired)
           signal == replay_analyze(df, bars[window])
           market_data == [timestamp |-> run.candle + 1,
                           close |-> bars[window]]
       IN  replay' = [replay EXCEPT ![r] =
                        [engine |-> process_candle(run.engine, signal,
                                                   market_data),
                         candle |-> run.candle + 1,
                         ohlcv_cache |-> IF variant = "dca" THEN df ELSE 0]]
    /\ UNCHANGED <<outsideReplay, bars, variant>>

ReplayNext == \E r \in {1, 2}, expired \in BOOLEAN : ReplayCandle(r, expired)

ReplayInit ==
    /\ FreshInit
    /\ fee_percent = 0
    /\ StepDefault
    /\ DefaultStrategy
    /\ backtest = NewEngine(<<10000, 1>>)
    /\ bars \in [1..(MaxCandles + 1) -> ReplayCloses]
    /\ variant \in Variants
    /\ Initialized
    /\ BotInit
    /\ paper_trading

ReplaySpec == ReplayInit /\ [][ReplayNext]_vars

\* ------------------------------------------- one exchange instance's orders
\* CCXTExchange.place_order called on one instance, for one symbol: the
\* synthetic order in paper mode, else the order the exchange created,
\* which carries the exchange's own id.
PlaceOrder(side, amount, price) ==
    /\ Len(placed_orders) < MaxOrders
    /\ placed_orders' =
         Append(placed_orders,
                IF paper_trading THEN PaperOrder(side, amount, price)
                ELSE LiveOrder(Len(placed_orders) + 1, side, amount, price, 0))
    /\ UNCHANGED <<outsideExchange>>

ExchangeNext ==
    \E side \in Sides, amount \in Amounts, price \in LedgerPrices :
        PlaceOrder(side, amount, price)

ExchangeSpec == Init /\ [][ExchangeNext]_vars

\* ------------------------------------------------------------- the backoff
\* The time a thread of _run_loop sleeps after a failure, in seconds.  Both
\* paths count in self.connectivity_failures, which a success sets back to
\* 0, so the n-th consecutive failure finds the counter at n.
Min(a, b) == IF a <= b THEN a ELSE b

RECURSIVE Pow2(_)
Pow2(k) == IF k = 0 THEN 1 ELSE 2 * Pow2(k - 1)

\* _check_connectivity: min(30 * self.connectivity_failures, 300)
probe_backoff_time(failures) == Min(30 * failures, 300)

\* _run_loop, `except Exception`:
\* min(10 * (2 ** min(self.connectivity_failures - 1, 4)), 300)
loop_backoff_time(failures) == Min(10 * Pow2(Min(failures - 1, 4)), 300)

backoff_time(path, failures) ==
    IF path = "probe" THEN probe_backoff_time(failures)
    ELSE loop_backoff_time(failures)

\* One more consecutive failure, of the connectivity probe or of the
\* iteration.
Fails(path) ==
    /\ Len(waits) < MaxConsecutive
    /\ LET failures == Len(waits) + 1
       IN  waits' = Append(waits, [path |-> path, failures |-> failures,
                                   backoff_time |->
                                       backoff_time(path, failures)])
    /\ UNCHANGED <<outsideBackoff>>

\* A probe or a market-data fetch succeeds: the counter is 0 again.
Recovers ==
    /\ waits # <<>>
    /\ waits' = <<>>
    /\ UNCHANGED <<outsideBackoff>>

BackoffNext == Fails("probe") \/ Fails("iteration") \/ Recovers

BackoffSpec == Init /\ [][BackoffNext]_vars

\* ----------------------------------------------------------------- startup
\* A BotInstance from its constructor on: initialize(), start(), the thread
\* of a start() that went through, stop().

\* The strategies discover_strategies() finds in plugins/strategies.
STRATEGIES == {"advanced_dca", "dca", "grid_trading"}

\* Values of config 'strategy': the known names and one that is none.
StrategyNames == STRATEGIES \cup {"martingale"}

\* A lookup that finds a class for every name.
StrategyKnownAny(name) == TRUE

\* get_strategy_class returns a class for these names and raises ValueError
\* for every other.
StrategyKnown(name) == name \in STRATEGIES

\* BotInstance.initialize().  exok: _init_exchange returned; cbok: no
\* on_error is set, or it returned.  An exception of on_error leaves the
\* handler and initialize().
Initialize(exok, cbok) ==
    /\ cpc = "idle"
    /\ initialize_result = "none"
    /\ exchange' = exok
    /\ connected' = exok
    /\ strategy' = IF exok /\ StrategyKnown(strategy_name) THEN strategy_name
                   ELSE "None"
    /\ initialize_result' =
         IF exok /\ StrategyKnown(strategy_name) THEN "True"
         ELSE IF cbok THEN "False" ELSE "raised"
    /\ UNCHANGED <<paper_trading, running, paused, thread, total_trades,
                   connectivity_failures, notified_orders, wpc, wsignal, cpc,
                   orders, hash_seed, strategy_fills, disk, delivered,
                   delivered_before, restarts, last_error, trailing_state>>
    /\ UNCHANGED <<trailing_call, ledgerVars, fileVars, stepVars,
                   backtestVars, replayVars, exchangeVars, backoffVars,
                   strategy_name, start_refused, strategyVars>>

\* start() on an instance without exchange or without strategy: it logs
\* 'Not initialized' and returns.
StartNotInitialized ==
    /\ cpc = "idle"
    /\ ~running
    /\ ~exchange \/ strategy = "None"
    /\ start_refused' = TRUE
    /\ UNCHANGED <<coreVars, stepVars, backtestVars, replayVars, exchangeVars,
                   backoffVars, strategy_name, exchange, strategy,
                   initialize_result, strategyVars>>

\* start() on an initialized instance.
StartInitialized ==
    /\ exchange
    /\ strategy # "None"
    /\ Start

\* The thread of a start() on a quiet market: every call succeeds and
\* analyze() returns hold.
QuietWorkerNext(w) ==
    \/ LoopTop(w)
    \/ \E due \in BOOLEAN : ConnCheck(w, due, TRUE, TRUE)
    \/ FetchMarketData(w, TRUE, TRUE)
    \/ CheckFilledOrders(w, TRUE)
    \/ Analyze(w, NoSignal, TRUE, TRUE)
    \/ \E due \in BOOLEAN : AutoSave(w, due, TRUE)
    \/ WakeUp(w)

StartupNext ==
    \/ \E exok, cbok \in BOOLEAN : Initialize(exok, cbok)
    \/ StartNotInitialized
    \/ StartInitialized
    \/ \E w \in Workers : QuietWorkerNext(w)
    \/ StopBegin
    \/ StopFinish(TRUE)

\* BotInstance.__init__: no exchange, no strategy, no thread.
StartupInit ==
    /\ FreshInit
    /\ fee_percent = 0
    /\ StepDefault
    /\ DefaultStrategy
    /\ BacktestDefault
    /\ strategy_name \in StrategyNames
    /\ exchange = FALSE
    /\ strategy = "None"
    /\ initialize_result = "none"
    /\ start_refused = FALSE
    /\ paper_trading \in BOOLEAN
    /\ running = FALSE
    /\ paused = FALSE
    /\ thread = 0
    /\ total_trades = 0
    /\ connectivity_failures = 0
    /\ notified_orders = {}
    /\ wpc = [w \in Workers |-> "dead"]
    /\ wsignal = [w \in Workers |-> NoSignal]
    /\ cpc = "idle"
    /\ connected = FALSE
    /\ orders = <<>>
    /\ hash_seed = 0
    /\ strategy_fills = 0
    /\ trailing_state = InactiveTrailing
    /\ disk = NoFile
    /\ delivered = <<>>
    /\ delivered_before = <<>>
    /\ restarts = 0
    /\ last_error = NoError

StartupSpec == StartupInit /\ [][StartupNext]_vars

\* ------------------------------------- one strategy instance and its restart

\* `len(df) < 50` of both analyze methods
MinBars == 50
\* config.get('indicator_cache_ttl', 300), in seconds
ohlcv_cache_ttl == 300
\* config.get('smart_indicator_checks', True)
smart_checks == TRUE
\* config.get('min_price_change_percent', 0.5)
min_price_change_percent == Norm(1, 2)
\* fees.get('maker', 0.1), fees.get('taker', 0.1), config.get('profit_target', 1.0)
maker_fee == Norm(1, 10)
taker_fee == Norm(1, 10)
profit_target == One

\* Seconds that pass between two readings of time.time().
Elapsed == {Tick, ohlcv_cache_ttl}

\* market_data['ohlcv']: None or a DataFrame, known by its number of bars
\* and by the indicators that vote for a buy on it.
DataFrame(bars_, votes) == [kind |-> "DataFrame", bars |-> bars_, votes |-> votes]

\* The windows on which no indicator or every indicator votes for a buy.
Windows ==
    {NoWindow, DataFrame(MinBars - 1, {})}
        \cup {DataFrame(MinBars, votes) : votes \in {{}, Indicators}}

\* market_data: 'last' (Zero is None) and 'ohlcv'.
Snapshots == [last : {Zero} \cup {R(p) : p \in LedgerPrices}, ohlcv : Windows]

\* The windows of any vote, and the snapshots that carry them.
VoteWindows ==
    {NoWindow} \cup {DataFrame(MinBars, votes) : votes \in SUBSET Indicators}

VoteSnapshots ==
    [last : {Zero} \cup {R(p) : p \in LedgerPrices}, ohlcv : VoteWindows]

Hold(reason, confidence) ==
    [action |-> "hold", confidence |-> confidence, reason |-> reason]

Buy(current_price, confidence) ==
    [action |-> "buy", confidence |-> confidence,
     reason |-> "Indicators triggered",
     price |-> current_price, amount |-> RDiv(amount_usd, current_price)]

\* The call ended in an exception: no signal.
Raised(error) == [action |-> "none", error |-> error]

\* sum(buy_signals) and len(buy_signals): one vote of each enabled indicator.
positive_signals(df) == Cardinality(df.votes \cap strategy_params.enabled)
total_signals == Cardinality(strategy_params.enabled)

\* df is None or len(df) < 50
Insufficient(df) == df = NoWindow \/ df.bars < MinBars

\* DCAStrategy._get_ohlcv_data at time.time() = now: the cached DataFrame
\* while it is younger than the ttl, else the snapshot's, which is cached
\* unless it is None.
dca_get_ohlcv_data(f, market_data, now) ==
    IF f.ohlcv_cache # NoWindow /\ now - f.ohlcv_cache_time < ohlcv_cache_ttl
    THEN [df |-> f.ohlcv_cache, fields |-> f]
    ELSE [df |-> market_data.ohlcv,
          fields |-> IF market_data.ohlcv # NoWindow
                     THEN [f EXCEPT !.ohlcv_cache = market_data.ohlcv,
                                    !.ohlcv_cache_time = now]
                     ELSE f]

\* abs((current_price - last_purchase_price) / last_purchase_price) * 100
price_change_percent(f, current_price) ==
    LET change == RDiv(RSub(current_price, f.last_purchase_price),
                       f.last_purchase_price)
    IN  RMul(IF RLess(change, Zero) THEN RNeg(change) ELSE change, R(100))

\* DCAStrategy.analyze with min_interval_hours 0 and no price limits (the
\* defaults): the signal and the fields after the call.
dca_analyze(f, market_data, now) ==
    LET current_price == market_data.last
        got == dca_get_ohlcv_data(f, market_data, now)
    IN  IF current_price = Zero
        THEN [signal |-> Hold("No price data", Zero), fields |-> f]
        ELSE IF /\ smart_checks
                /\ f.last_purchase_price # Zero
                /\ RLess(price_change_percent(f, current_price),
                         min_price_change_percent)
        THEN [signal |-> Hold("Price change too small", Norm(1, 2)),
              fields |-> f]
        ELSE IF Insufficient(got.df)
        THEN [signal |-> Hold("Insufficient market data", Zero),
              fields |-> got.fields]
        ELSE IF /\ positive_signals(got.df) >= 1
                /\ 2 * positive_signals(got.df) >= total_signals
        THEN [signal |-> Buy(current_price,
                             IF total_signals > 0
                             THEN Norm(positive_signals(got.df), total_signals)
                             ELSE One),
              fields |-> got.fields]
        ELSE [signal |-> Hold("Indicators not aligned", One),
              fields |-> got.fields]

\* AdvancedDCAStrategy.analyze without its sell loop.
ReadyToSellNone(ps, current_price) == 0

\* AdvancedDCAStrategy.analyze: the first purchase that reached its sell
\* price, 0 when none has.
ReadyToSell(ps, current_price) ==
    IF \E i \in 1..Len(ps) : RLeq(ps[i].sell_price, current_price)
    THEN CHOOSE i \in 1..Len(ps) :
            /\ RLeq(ps[i].sell_price, current_price)
            /\ \A j \in 1..(i - 1) : ~RLeq(ps[j].sell_price, current_price)
    ELSE 0

\* ((last_purchase_price - current_price) / last_purchase_price) * 100
price_drop_from_last(ps, current_price) ==
    LET last_purchase_price == ps[Len(ps)].price
    IN  RMul(RDiv(RSub(last_purchase_price, current_price),
                  last_purchase_price), R(100))

\* positive_signals >= (total_signals * self.indicator_agreement)
Agreement(positive, total) ==
    RLeq(RMul(R(total), strategy_params.indicator_agreement), R(positive))

\* AdvancedDCAStrategy.analyze: it reads no field but self.purchases.
advanced_analyze(ps, market_data) ==
    LET current_price == market_data.last
        df == market_data.ohlcv
        i == ReadyToSell(ps, current_price)
    IN  IF current_price = Zero \/ Insufficient(df)
        THEN Hold("Insufficient market data", Zero)
        ELSE IF i # 0
        THEN [action |-> "sell", confidence |-> One,
              reason |-> "Purchase reached profit target",
              price |-> current_price, amount |-> ps[i].amount]
        ELSE IF /\ Len(ps) > 0
                /\ ps[Len(ps)].price # Zero
                /\ RLess(price_drop_from_last(ps, current_price),
                         RequiredStep(step_params, Len(ps) + 1))
        THEN Hold("Price needs to drop", Zero)
        ELSE IF Agreement(positive_signals(df), total_signals)
        THEN IF total_signals = 0
             THEN Raised("ZeroDivisionError")
             ELSE Buy(current_price, Norm(positive_signals(df), total_signals))
        ELSE Hold("Indicators not aligned", One)

\* A strategy object: the fields of both classes, those of the other class
\* as its constructor leaves them.
FreshInstance ==
    [dca |-> NewDca, purchases |-> <<>>, total_profit |-> Zero,
     total_dca_applied |-> Zero, trailing_state |-> InactiveTrailing]

Instance ==
    [dca |-> dca_fields, purchases |-> purchases,
     total_profit |-> total_profit, total_dca_applied |-> total_dca_applied,
     trailing_state |-> trailing_state]

\* strategy.analyze(market_data) of the configured class.
analyze(inst, market_data, now) ==
    IF variant = "dca"
    THEN LET out == dca_analyze(inst.dca, market_data, now)
         IN  [signal |-> out.signal,
              instance |-> [inst EXCEPT !.dca = out.fields]]
    ELSE [signal |-> advanced_analyze(inst.purchases, market_data),
          instance |-> inst]

\* TechnicalIndicators.calculate_sell_price_with_fees
calculate_sell_price_with_fees(buy_price) ==
    LET total_cost == RMul(buy_price, RAdd(One, RDiv(maker_fee, R(100))))
        target == RMul(total_cost, RAdd(One, RDiv(profit_target, R(100))))
    IN  RDiv(target, RSub(One, RDiv(taker_fee, R(100))))

\* TechnicalIndicators.calculate_actual_profit_percent
calculate_actual_profit_percent(buy_price, sell_price) ==
    LET total_cost == RMul(buy_price, RAdd(One, RDiv(maker_fee, R(100))))
        proceeds == RMul(sell_price, RSub(One, RDiv(taker_fee, R(100))))
    IN  RMul(RDiv(RSub(proceeds, total_cost), total_cost), R(100))

\* DCAStrategy.on_order_filled at time.time() = now.
dca_on_order_filled(f, order, now) ==
    LET price == Get(order, "price")
        sell_price == calculate_sell_price_with_fees(price)
    IN  IF order.side = "buy"
        THEN [f EXCEPT
                !.last_purchase_time = now,
                !.last_purchase_price = price,
                !.purchase_count = @ + 1,
                !.total_purchased = RAdd(@, Get(order, "filled")),
                !.total_spent = RAdd(@, Get(order, "cost")),
                !.pending_sell_order =
                    [buy_order_id |-> order.id, buy_price |-> price,
                     buy_amount |-> Get(order, "filled"),
                     buy_cost |-> Get(order, "cost"),
                     buy_timestamp |-> now,
                     target_sell_price |-> sell_price,
                     profit_target |-> profit_target,
                     actual_profit |->
                         IF price = Zero THEN Zero
                         ELSE calculate_actual_profit_percent(price,
                                                              sell_price),
                     status |-> "pending"]]
        ELSE IF f.pending_sell_order # NoPending
        THEN [f EXCEPT
                !.pending_sell_order =
                    [fld \in DOMAIN @ \cup {"sell_order_id", "sell_price",
                                            "sell_timestamp"} |->
                        CASE fld = "status" -> "filled"
                          [] fld = "sell_order_id" -> order.id
                          [] fld = "sell_price" -> price
                          [] fld = "sell_timestamp" -> now
                          [] OTHER -> @[fld]]]
        ELSE f

\* get_state() of the configured class.
get_state(inst) ==
    IF variant = "dca"
    THEN [last_purchase_time |-> inst.dca.last_purchase_time,
          last_purchase_price |-> inst.dca.last_purchase_price,
          total_purchased |-> inst.dca.total_purchased,
          total_spent |-> inst.dca.total_spent,
          purchase_count |-> inst.dca.purchase_count,
          pending_sell_order |-> inst.dca.pending_sell_order,
          trailing_state |-> inst.trailing_state]
    ELSE [purchases |-> inst.purchases,
          total_profit |-> inst.total_profit,
          total_dca_applied |-> inst.total_dca_applied,
          trailing_state |-> inst.trailing_state]

\* state.get(key, default)
StateGet(state, key, default) ==
    IF key \in DOMAIN state THEN state[key] ELSE default

\* restore_state(state) of the configured class on the instance inst.
restore_state(inst, state) ==
    IF variant = "dca"
    THEN [inst EXCEPT
            !.dca = [@ EXCEPT
                !.last_purchase_time = StateGet(state, "last_purchase_time", 0),
                !.last_purchase_price =
                    StateGet(state, "last_purchase_price", Zero),
                !.total_purchased = StateGet(state, "total_purchased", Zero),
                !.total_spent = StateGet(state, "total_spent", Zero),
                !.purchase_count = StateGet(state, "purchase_count", 0),
                !.pending_sell_order =
                    StateGet(state, "pending_sell_order", NoPending)],
            !.trailing_state = StateGet(state, "trailing_state", @)]
    ELSE [inst EXCEPT
            !.purchases = StateGet(state, "purchases", <<>>),
            !.total_profit = StateGet(state, "total_profit", Zero),
            !.total_dca_applied = StateGet(state, "total_dca_applied", Zero),
            !.trailing_state = StateGet(state, "trailing_state", @)]

\* self.stats: the trade counter and last_update, a datetime once a
\* snapshot was fetched.
Stats ==
    [total_trades |-> total_trades,
     last_update |-> IF analyze_call = NoAnalyze
                     THEN [kind |-> "None"]
                     ELSE [kind |-> "datetime", t |-> clock]]

\* datetime.isoformat() where _save_state applies it
isoformat(d) == IF d.kind = "datetime" THEN [kind |-> "str", t |-> d.t] ELSE d

\* _save_state: the document json.dump writes.  Numbers, strings, None,
\* lists and dicts with string keys come back from json.load as they were.
save_state(inst) ==
    [stats |-> [Stats EXCEPT !.last_update = isoformat(@)],
     strategy_state |-> get_state(inst),
     connectivity |-> [failure_count |-> connectivity_failures]]

\* _load_state in a BotInstance that initialize() has just built.
load_state(document) ==
    [instance |-> restore_state(FreshInstance, document.strategy_state),
     stats |-> document.stats,
     connectivity_failures |-> document.connectivity.failure_count]

\* on_order_filled of a DCAStrategy with an order of one lot; d seconds
\* have passed.
DcaOrderFilled(order, d) ==
    /\ variant = "dca"
    /\ order.amount = One
    /\ ledger_fills < MaxStrategyFills
    /\ clock + d <= MaxClock
    /\ clock' = clock + d
    /\ dca_fields' = dca_on_order_filled(dca_fields, order, clock + d)
    /\ ledger_fills' = ledger_fills + 1
    /\ last_order' = order
    /\ UNCHANGED <<analyze_call, restored, strategy_params, gridVars>>
    /\ UNCHANGED <<purchases, total_profit, total_dca_applied, fee_percent>>
    /\ UNCHANGED <<botVars, trailing_state, trailing_call, fileVars,
                   outsideStrategy>>

\* strategy.analyze(market_data); d seconds have passed on the clock, which
\* only a DCAStrategy reads.
Analyze_(market_data, d) ==
    /\ clock + d <= MaxClock
    /\ variant = "advanced_dca" => d = Tick
    /\ clock' = IF variant = "dca" THEN clock + d ELSE clock
    /\ LET out == analyze(Instance, market_data, clock + d)
       IN  /\ dca_fields' = out.instance.dca
           /\ analyze_call' = [ohlcv |-> market_data.ohlcv,
                               signal |-> out.signal]
    /\ UNCHANGED <<restored, strategy_params, gridVars>>
    /\ UNCHANGED <<coreVars, outsideStrategy>>

\* _save_state of this BotInstance, then a new BotInstance with the same
\* bot_id and configuration, and its initialize().
Restart ==
    /\ ~restored.done
    /\ restored' = [done |-> TRUE, time |-> clock, original |-> Instance,
                    stats |-> Stats,
                    loaded |-> load_state(save_state(Instance))]
    /\ UNCHANGED <<dca_fields, clock, analyze_call, strategy_params, gridVars>>
    /\ UNCHANGED <<coreVars, outsideStrategy>>

\* The instance's history ends with the restart.
StrategyNext ==
    \/ /\ ~restored.done
       /\ \/ \E order \in FilledOrders : DcaOrderFilled(order, Tick)
          \/ /\ variant = "advanced_dca"
             /\ ledger_fills < MaxStrategyFills
             /\ LedgerNext
          \/ \E market_data \in Snapshots, d \in Elapsed :
                Analyze_(market_data, d)
    \/ Restart

\* A strategy of either class in a live bot: a new one, or one that has
\* counted trades and waits with a trailing order.
InstanceInit ==
    /\ FreshInit
    /\ fee_percent = 0
    /\ StepDefault
    /\ backtest = NewEngine(<<10000, 1>>)
    /\ bars = <<>>
    /\ variant \in Variants
    /\ Initialized
    /\ paper_trading = FALSE
    /\ running = FALSE
    /\ paused = FALSE
    /\ thread = 0
    /\ total_trades \in {0, MaxTrades}
    /\ connectivity_failures = 0
    /\ notified_orders = {}
    /\ wpc = [w \in Workers |-> "dead"]
    /\ wsignal = [w \in Workers |-> NoSignal]
    /\ cpc = "idle"
    /\ connected = TRUE
    /\ orders = <<>>
    /\ hash_seed = 0
    /\ strategy_fills = 0
    /\ trailing_state = IF total_trades = 0 THEN InactiveTrailing
                        ELSE start_trailing("up", 2, 25, 1)
    /\ disk = NoFile
    /\ delivered = <<>>
    /\ delivered_before = <<>>
    /\ restarts = 0
    /\ last_error = NoError

\* The same with the default parameters.
StrategyInit == InstanceInit /\ DefaultStrategy

StrategySpec == StrategyInit /\ [][StrategyNext]_vars

\* An AdvancedDCAStrategy between its fills and its analyze calls.
AdvancedNext ==
    \/ ledger_fills < MaxStrategyFills /\ LedgerNext
    \/ \E market_data \in Snapshots : Analyze_(market_data, Tick)

AdvancedInit ==
    /\ StrategyInit
    /\ variant = "advanced_dca"
    /\ total_trades = 0

AdvancedSpec == AdvancedInit /\ [][AdvancedNext]_vars

\* Values of use_rsi, use_stoch_rsi, ..., 'indicator_agreement' and
\* 'max_purchases' a configuration may carry.
StrategyParams ==
    [enabled : SUBSET Indicators, indicator_agreement : {<<1, 2>>, <<3, 5>>},
     max_purchases : {-1, 1}]

\* strategy.analyze(market_data) of an AdvancedDCAStrategy, the call kept
\* with the snapshot's price; only the enabled indicators are asked for
\* their votes.
AnalyzeWithPrice(market_data) ==
    /\ variant = "advanced_dca"
    /\ market_data.ohlcv # NoWindow =>
          market_data.ohlcv.votes \subseteq strategy_params.enabled
    /\ analyze_call' = [ohlcv |-> market_data.ohlcv,
                        last |-> market_data.last,
                        signal |-> advanced_analyze(purchases, market_data)]
    /\ UNCHANGED <<dca_fields, clock, restored, strategy_params, gridVars>>
    /\ UNCHANGED <<coreVars, outsideStrategy>>

\* on_order_filled, a bounded number of times.
ParamFilled ==
    \E order \in FilledOrders :
        /\ ledger_fills < MaxParamFills
        /\ BuyFilled(order) \/ SellFilled(order)

\* An AdvancedDCAStrategy of any parameters between its fills and its
\* analyze calls.
ParamNext ==
    \/ ParamFilled
    \/ \E market_data \in VoteSnapshots : AnalyzeWithPrice(market_data)

ParamInit ==
    /\ InstanceInit
    /\ strategy_params \in StrategyParams
    /\ variant = "advanced_dca"
    /\ total_trades = 0

ParamSpec == ParamInit /\ [][ParamNext]_vars

\* The same strategy with the default parameters, on windows of any vote.
VoteSpec == AdvancedInit /\ [][ParamNext]_vars

\* ------------------------------------------------- one GridTradingStrategy

\* params.get('grid_spacing', 2.5), in percent, and
\* params.get('position_size', 100)
grid_spacing == Norm(5, 2)
position_size == R(100)
\* params.get('use_indicators_for_buy', True) and
\* params.get('use_indicators_for_sell', False)
use_indicators_for_buy == TRUE
use_indicators_for_sell == FALSE
\* hasattr(self.bot, 'get_market_data'): BotInstance, BotEngine and
\* BacktestEngine, the objects handed to initialize(), have no such method.
bot_has_get_market_data == FALSE

\* Prices a snapshot may carry for the grid; Zero is None.
GridLasts == {Zero, R(100), R(200)}

\* _calculate_grid_levels: the buy levels below current_price, then the
\* sell levels above it.
calculate_grid_levels(current_price) ==
    [k \in 1..(2 * grid_levels) |->
        IF k <= grid_levels
        THEN [price |-> RMul(current_price,
                             RSub(One, RMul(RDiv(grid_spacing, R(100)), R(k)))),
              side |-> "buy"]
        ELSE [price |-> RMul(current_price,
                             RAdd(One, RMul(RDiv(grid_spacing, R(100)),
                                            R(k - grid_levels)))),
              side |-> "sell"]]

\* _place_grid_orders: one pending order of position_size at each level.
place_grid_orders(g) ==
    LET levels == calculate_grid_levels(g.current_price)
    IN  [g EXCEPT !.grid_orders =
            @ \o [k \in 1..Len(levels) |->
                    [price |-> levels[k].price, side |-> levels[k].side,
                     amount |-> RDiv(position_size, levels[k].price),
                     status |-> "pending"]]]

\* GridTradingStrategy.analyze: the signal and the strategy after the call.
grid_analyze(g, market_data) ==
    LET priced == [g EXCEPT !.current_price = market_data.last]
    IN  IF market_data.last = Zero
        THEN [signal |-> Hold("No price data available", Zero),
              grid |-> priced]
        ELSE IF Len(g.grid_orders) = 0
        THEN [signal |-> Hold("Placed grid orders", One),
              grid |-> place_grid_orders(priced)]
        ELSE [signal |-> Hold("Grid orders active", One), grid |-> priced]

\* _validate_buy_indicators and _validate_sell_indicators: True without a
\* bot that has market data, else the vote of the indicators.
validate_indicators(favourable) ==
    IF ~bot_has_get_market_data THEN TRUE ELSE favourable

\* [o for o in self.grid_orders if o.get('price') != order.get('price')]
RemoveFilled(orders_, order) ==
    SelectSeq(orders_, LAMBDA o : o.price # order.price)

\* GridTradingStrategy.on_order_filled
grid_on_order_filled(g, order, favourable) ==
    LET kept == RemoveFilled(g.grid_orders, order)
        step == RDiv(grid_spacing, R(100))
    IN  IF order.side = "buy"
        THEN IF use_indicators_for_sell /\ ~validate_indicators(favourable)
             THEN [g EXCEPT !.grid_orders = kept]
             ELSE [g EXCEPT !.grid_orders =
                     Append(kept, [price |-> RMul(order.price, RAdd(One, step)),
                                   side |-> "sell", amount |-> order.amount,
                                   status |-> "pending"])]
        ELSE IF use_indicators_for_buy /\ ~validate_indicators(favourable)
             THEN [g EXCEPT !.grid_orders = kept]
             ELSE [g EXCEPT !.grid_orders =
                     Append(kept, [price |-> RMul(order.price, RSub(One, step)),
                                   side |-> "buy", amount |-> order.amount,
                                   status |-> "pending"])]

\* GridTradingStrategy.get_state
grid_get_state(g) ==
    [grid_orders |-> g.grid_orders, current_price |-> g.current_price]

\* strategy.analyze(market_data) of the grid strategy.
GridAnalyze(market_data) ==
    /\ grid_call.n < MaxGridCalls
    /\ LET out == grid_analyze(grid, market_data)
       IN  /\ grid' = out.grid
           /\ grid_call' = [op |-> "analyze", n |-> grid_call.n + 1,
                            last |-> market_data.last, signal |-> out.signal]
    /\ UNCHANGED <<dca_fields, clock, analyze_call, restored, strategy_params>>
    /\ UNCHANGED <<coreVars, outsideStrategy>>

\* The pending grid order k has filled: on_order_filled with the closed
\* order, whose price, side and amount are the grid order's.
GridOrderFilled(k, favourable) ==
    /\ grid_call.n < MaxGridCalls
    /\ k \in 1..Len(grid.grid_orders)
    /\ LET order == [id |-> <<"grid", grid_call.n + 1>>,
                     side |-> grid.grid_orders[k].side,
                     price |-> grid.grid_orders[k].price,
                     amount |-> grid.grid_orders[k].amount,
                     status |-> "closed"]
       IN  /\ grid' = grid_on_order_filled(grid, order, favourable)
           /\ grid_call' = [op |-> "fill", n |-> grid_call.n + 1,
                            order |-> order]
    /\ UNCHANGED <<dca_fields, clock, analyze_call, restored, strategy_params>>
    /\ UNCHANGED <<coreVars, outsideStrategy>>

GridNext ==
    \/ \E market_data \in [last : GridLasts, ohlcv : {NoWindow}] :
          GridAnalyze(market_data)
    \/ \E k \in 1..(2 * grid_levels), favourable \in BOOLEAN :
          GridOrderFilled(k, favourable)

\* A new GridTradingStrategy in an initialized bot.
GridInit == InstanceInit /\ DefaultStrategy /\ variant = "dca" /\ total_trades = 0

GridSpec == GridInit /\ [][GridNext]_vars

\* ------------------------------------------------------------------ claims

CountIn(d, id) == IF id \in DOMAIN d THEN d[id] ELSE 0

\* C1: over the iterations of one BotInstance, strategy.on_order_filled is
\* called at most once for any order id.
C1_AtMostOncePerOrderId ==
    \A id \in DOMAIN delivered : delivered[id] <= 1

\* C2: an order that place_order returned open and that the exchange has
\* closed since is eventually reported to the strategy, exactly once, while
\* the loop keeps iterating and the exchange calls succeed.
C2_ClosedOrderEventuallyNotified ==
    \A n \in 1..MaxTrades :
        (n <= Len(orders) /\ orders[n].status = "closed"
                          /\ Count(LiveOrderId(n)) = 0)
            ~> (Count(LiveOrderId(n)) = 1)

\* C3: a run of _check_filled_orders that meets no error leaves every order
\* the exchange has closed notified exactly once, the first run and any
\* repeated run alike.
C3_ReconcileNotifiesOnce ==
    [][\A w \in Workers :
          (wpc[w] = "reconcile" /\ wpc'[w] = "analyze"
                                /\ last_error' = NoError)
          => \A n \in 1..Len(orders) :
                orders[n].status = "closed"
                    => CountIn(delivered', LiveOrderId(n)) = 1]_vars

\* C4: an order id delivered to a strategy before a new BotInstance was
\* built on the saved state is not delivered again after it.
C4_NoRedeliveryAfterRestart ==
    \A id \in DOMAIN delivered_before : delivered[id] = delivered_before[id]

\* C5: at most one thread executing _run_loop is alive at any time.
C5_AtMostOneWorker ==
    Cardinality(Alive) <= 1

\* stop() has cleared running since thread w was started: running is still
\* clear, or a later start() has replaced w as self.thread.
StopSeen(w) == wpc[w] # "dead" /\ (~running \/ thread # w)

\* C6: a thread, once stop() has cleared running, starts no new iteration.
C6_NoIterationAfterStop ==
    [][\A w \in Workers :
          (wpc[w] = "top" /\ StopSeen(w)) => wpc'[w] # "conn"]_vars

\* A thread leaves the loop only at its top and only with running cleared.
ExitsOnlyWhenStopped ==
    \A w \in Workers :
        (wpc[w] # "dead" /\ wpc'[w] = "dead") => (wpc[w] = "top" /\ ~running)

\* C7: every error of an iteration (market-data fetch, reconciliation,
\* analyze, order dispatch, state save) is counted as a connectivity
\* failure and followed by a backoff wait, and the thread leaves the loop
\* only with running cleared.
C7_EveryErrorCountedAndBackedOff ==
    [][/\ last_error' \in {"fetch", "reconcile", "analyze", "order", "save"}
            => /\ connectivity_failures' = connectivity_failures + 1
               /\ \E w \in Workers : wpc[w] # "backoff" /\ wpc'[w] = "backoff"
       /\ ExitsOnlyWhenStopped]_vars

\* C8: at every point of every interleaving of the threads' state writes,
\* a crash included, bot_state_<id>.json is absent or holds one whole
\* snapshot.
C8_StateFileWhole ==
    state_file = 0 \/ Whole(inodes[state_file])

\* C9: a call of update_trailing on a 'triggered' trailing state returns
\* False and leaves every field of the trailing state as it was.
C9_TriggeredIsInert ==
    [][(/\ trailing_state.status = "triggered"
        /\ trailing_call'.seq = trailing_call.seq + 1
        /\ trailing_call'.op = "update")
       => /\ trailing_state' = trailing_state
          /\ trailing_call'.result = FALSE]_vars

\* C9 witness: the last call of the budget was an update_trailing on a
\* state that was triggered before it, and still is.
C9_Witness ==
    /\ trailing_call.seq = MaxCalls
    /\ trailing_call.op = "update"
    /\ trailing_call.was = "triggered"
    /\ trailing_state.status = "triggered"

\* C10: every purchase of the AdvancedDCA ledger sells above its cost by at
\* least the minimum profit, whatever fills and reallocations came before
\* (the exchange's fee rate taken as zero, the weakest reading):
\* sell_price*amount > cost and
\* (sell_price*amount - cost) >= min_profit_percent*cost.
C10_SellPriceCoversCost ==
    \A i \in 1..Len(purchases) :
        LET pu == purchases[i]
            proceeds == RMul(pu.sell_price, pu.amount)
        IN /\ RLess(pu.cost, proceeds)
           /\ RLeq(RMul(min_profit_percent, pu.cost), RSub(proceeds, pu.cost))

\* The sum of dca_applied over the purchases of a ledger.
RECURSIVE SumDcaApplied(_)
SumDcaApplied(ps) ==
    IF ps = <<>> THEN Zero
    ELSE RAdd(SumDcaApplied(SubSeq(ps, 1, Len(ps) - 1)),
              ps[Len(ps)].dca_applied)

\* C11: after any sequence of buy fills and sell fills, the dca_applied of
\* the purchases still in the ledger add up to total_dca_applied.
C11_DcaAppliedSumsToTotal ==
    SumDcaApplied(purchases) = total_dca_applied

\* The step is an on_order_filled call with a sell order that removed a
\* purchase from the ledger.
SellRemoved ==
    /\ ledger_fills' = ledger_fills + 1
    /\ last_order'.side = "sell"
    /\ Len(purchases') = Len(purchases) - 1

\* The sale of purchases[i] for the proceeds and fee of order left the
\* ledger as C12 says: with an excess over the minimum profit and a
\* purchase remaining, the last remaining purchase alone has its cost
\* lowered and its dca_applied raised by excess * dca_pool_percent, and
\* total_dca_applied grows by the same; else the remaining purchases and
\* total_dca_applied are as they were.
SoldWithFrame(i, order) ==
    LET sold == purchases[i]
        rest == Pop(purchases, i)
        n == Len(rest)
        excess == RSub(RSub(RSub(Get(order, "cost"), Get(order, "fee")),
                            sold.cost),
                       RMul(min_profit_percent, sold.cost))
        moved == RMul(excess, dca_pool_percent)
    IN /\ sold.amount = Get(order, "amount")
       /\ Len(purchases') = n
       /\ IF RLess(Zero, excess) /\ n > 0
          THEN /\ \A j \in 1..(n - 1) : purchases'[j] = rest[j]
               /\ purchases'[n].cost = RSub(rest[n].cost, moved)
               /\ purchases'[n].dca_applied = RAdd(rest[n].dca_applied, moved)
               /\ purchases'[n].amount = rest[n].amount
               /\ purchases'[n].fee = rest[n].fee
               /\ purchases'[n].price = rest[n].price
               /\ purchases'[n].buy_order_id = rest[n].buy_order_id
               /\ total_dca_applied' = RAdd(total_dca_applied, moved)
          ELSE /\ purchases' = rest
               /\ total_dca_applied' = total_dca_applied

\* C12: a sell fill that removes a purchase reallocates the excess profit to
\* the last remaining purchase and to no other, and counts it in
\* total_dca_applied; without excess or without a remaining purchase nothing
\* but total_profit changes.
C12_ReallocationTouchesLastOnly ==
    [][SellRemoved
       => \E i \in 1..Len(purchases) : SoldWithFrame(i, last_order')]_vars

\* C12 witness: a sale has left two purchases in the ledger, the earlier one
\* untouched and the later one carrying the whole reallocation.
C12_Witness ==
    /\ last_order.side = "sell"
    /\ Len(purchases) = 2
    /\ purchases[1].dca_applied = Zero
    /\ RLess(Zero, purchases[2].dca_applied)
    /\ purchases[2].dca_applied = total_dca_applied

\* C13: the drop asked for before purchase n >= 2 is
\* min(base_step_down * step_down_multiplier^(n-2), max_step_down), with
\* base_step_down = min(min_profit_percent, 5); for a base of 2, a multiplier
\* of 1.5 and a maximum of 5 it is 2, 3 and 4.5 for purchases 2, 3 and 4 and
\* 5 for every later one.
C13_Formula ==
    purchase_number >= 2 =>
        /\ LET base == RMin(step_params.min_profit_percent, R(5))
               power == RPow(step_params.step_down_multiplier,
                             purchase_number - 2)
               grown == RMul(base, power)
           IN required_step = RMin(grown, step_params.max_step_down)
        /\ step_params = [min_profit_percent |-> R(2),
                          step_down_multiplier |-> <<3, 2>>,
                          max_step_down |-> R(5)]
             => required_step = CASE purchase_number = 2 -> R(2)
                                  [] purchase_number = 3 -> R(3)
                                  [] purchase_number = 4 -> <<9, 2>>
                                  [] OTHER -> R(5)

\* The drop asked for does not decrease from one purchase to the next.
C13_NeverDecreases ==
    (purchase_number >= 2 /\ purchase_number' = purchase_number + 1)
        => RLeq(required_step, required_step')

C14_EveryFillReported == bt_reported = Len(backtest.trades)

\* The scenario of C16: one buy signal for 1 at 100 on candle i, one sell
\* signal for 1 at 110 on a later candle j, the candles closing at the
\* signals' prices, and hold on every other candle.
ForcedBuy == [action |-> "buy", metadata |-> [amount |-> One, price |-> R(100)]]
ForcedSell == [action |-> "sell", metadata |-> [amount |-> One, price |-> R(110)]]

BuyThenSell(i, j) ==
    /\ i < j
    /\ bt_signals[i] = [signal |-> ForcedBuy, close |-> R(100)]
    /\ bt_signals[j] = [signal |-> ForcedSell, close |-> R(110)]
    /\ \A k \in DOMAIN bt_signals \ {i, j} : bt_signals[k].signal.action = "hold"

\* No candle from i to j closes below the candle before it.
ClosesNeverFall(i, j) ==
    \A k \in i..(j - 1) : RLeq(bt_signals[k].close, bt_signals[k + 1].close)

\* C16 as stated: a backtest with an initial balance of 10000, one buy of 1
\* at 100 and later one sell of 1 at 110 ends with final_equity 10010,
\* total_trades 2, winning_trades 1 and max_drawdown 0.
C16_BuyThenSellResults ==
    (results.done /\ backtest.initial_balance = R(10000))
        => \A i, j \in DOMAIN bt_signals :
             BuyThenSell(i, j)
                => /\ results.final_equity = R(10010)
                   /\ results.total_trades = 2
                   /\ results.winning_trades = 1
                   /\ results.max_drawdown = Zero

\* C16, amended: final_equity, total_trades and winning_trades as stated;
\* max_drawdown is 0 when no candle from the buy to the sell closes below
\* the candle before it.
C16_BuyThenSellResultsAmended ==
    (results.done /\ backtest.initial_balance = R(10000))
        => \A i, j \in DOMAIN bt_signals :
             BuyThenSell(i, j)
                => /\ results.final_equity = R(10010)
                   /\ results.total_trades = 2
                   /\ results.winning_trades = 1
                   /\ ClosesNeverFall(i, j) => results.max_drawdown = Zero

\* The scenario has run with a candle between the buy and the sell.
C16_Witness ==
    /\ results.done
    /\ backtest.initial_balance = R(10000)
    /\ BuyThenSell(1, 3)
    /\ ClosesNeverFall(1, 3)
    /\ results.final_equity = R(10010)
    /\ results.max_drawdown = Zero

\* C15: two backtests, each with a new engine and a new strategy built from
\* the same configuration and fed the same bars, end with the same trade
\* log and the same equity curve.
C15_SameBarsSameResult ==
    (replay[1].candle = MaxCandles /\ replay[2].candle = MaxCandles)
        => /\ replay[1].engine.trades = replay[2].engine.trades
           /\ replay[1].engine.equity_curve = replay[2].engine.equity_curve

\* C17: in paper mode every order place_order returns is closed and filled
\* for the requested amount, and any two place_order calls of one exchange
\* instance return different ids.
C17_PaperOrdersClosedDistinctIds ==
    paper_trading =>
        \A i, j \in DOMAIN placed_orders :
            /\ placed_orders[i].status = "closed"
            /\ placed_orders[i].filled = placed_orders[i].amount
            /\ i # j => placed_orders[i].id # placed_orders[j].id

\* A connectivity probe of thread w has failed in this step.
ProbeFailed(w) ==
    /\ wpc[w] = "conn"
    /\ wpc'[w] = "backoff"
    /\ last_error' = "conn"

\* C18: a failed connectivity probe increments the failure counter; the
\* trailing state is reset to inactive and the state is persisted once the
\* counter exceeds max_connectivity_failures, and neither happens while the
\* counter is at or below it.
C18_ResetOnceFailuresExceedMax ==
    [][(\E w \in Workers : ProbeFailed(w))
         => /\ connectivity_failures' = connectivity_failures + 1
            /\ IF connectivity_failures' > max_connectivity_failures
               THEN /\ trailing_state' = InactiveTrailing
                    /\ disk' = Snapshot(total_trades, strategy_fills,
                                        connectivity_failures',
                                        trailing_state')
               ELSE /\ trailing_state' = trailing_state
                    /\ disk' = disk]_vars

\* C19: the wait after each consecutive failure, of the probe and of the
\* iteration alike, is an exponential backoff: twice the wait of the failure
\* before it until the cap of 300 seconds is reached, and never more than
\* 300 seconds.
C19_ExponentialBackoff ==
    \A i \in DOMAIN waits :
        /\ waits[i].backoff_time <= 300
        /\ waits[i].failures >= 2
             => waits[i].backoff_time =
                  Min(2 * backoff_time(waits[i].path, waits[i].failures - 1),
                      300)

\* No thread of _run_loop exists and none has been asked for.
NeverStarted ==
    /\ ~running
    /\ thread = 0
    /\ \A w \in Workers : wpc[w] = "dead"

\* C20 as stated: with an unknown strategy name initialize() returns False
\* and sets no strategy, and start() leaves running False and spawns no
\* thread.
C20_UnknownStrategyFatalAtStartup ==
    strategy_name \notin STRATEGIES
        => /\ initialize_result \in {"none", "False"}
           /\ strategy = "None"
           /\ NeverStarted

\* C20, amended: with an unknown strategy name initialize() returns False,
\* or ends with the exception its on_error callback raised; it sets no
\* strategy, and start() leaves running False and spawns no thread.
C20_UnknownStrategyNeverRuns ==
    strategy_name \notin STRATEGIES
        => /\ initialize_result \in {"none", "False", "raised"}
           /\ strategy = "None"
           /\ NeverStarted

\* initialize() has returned False for an unknown name and a start() has
\* followed it.
C20_Witness ==
    /\ strategy_name \notin STRATEGIES
    /\ initialize_result = "False"
    /\ exchange
    /\ start_refused
    /\ NeverStarted

\* C21: once get_state() has been saved and restored into a new instance of
\* the same configuration, the new instance holds the saved strategy state
\* (trailing state and open purchases included) and the saved trade counter,
\* and it answers every later snapshot with the signal the saved instance
\* would have given.
C21_RestoreReproducesDecisions ==
    restored.done =>
        /\ get_state(restored.loaded.instance) = get_state(restored.original)
        /\ restored.loaded.stats.total_trades = restored.stats.total_trades
        /\ \A market_data \in Snapshots, d \in Elapsed :
              analyze(restored.loaded.instance, market_data,
                      restored.time + d).signal
                  = analyze(restored.original, market_data,
                            restored.time + d).signal

\* What neither a paused iteration nor pause() and resume() may change.
besidesPause ==
    <<paper_trading, running, thread, total_trades, connectivity_failures,
      notified_orders, wsignal, cpc, connected, orders, hash_seed,
      strategy_fills, disk, delivered, delivered_before, restarts,
      trailing_state, auxVars>>

\* C22: a thread that finds paused set at the top of an iteration goes to
\* its one-second sleep and from there back to the top, and neither step
\* probes, fetches, reconciles, analyzes, places an order or saves; pause()
\* and resume() change the paused flag and nothing else, running included.
C22_PausedIterationIdle ==
    [][/\ \A w \in Workers :
            (wpc[w] = "top" /\ running /\ paused /\ wpc'[w] # "top")
                => (wpc'[w] = "paused" /\ UNCHANGED <<paused, besidesPause>>)
       /\ \A w \in Workers :
            (wpc[w] = "paused" /\ wpc'[w] # "paused")
                => (wpc'[w] = "top" /\ UNCHANGED <<paused, besidesPause>>)
       /\ paused' # paused => UNCHANGED <<wpc, besidesPause>>]_vars

C22_Witness ==
    \E w \in Workers :
        /\ wpc[w] = "paused"
        /\ running
        /\ paused
        /\ total_trades > 0

\* C23: an analyze() call whose snapshot carries no bar window, or one of
\* fewer than 50 bars, returns a hold signal with a non-empty reason, in
\* every state of the strategy.
C23_ShortWindowHolds ==
    (analyze_call # NoAnalyze /\ Insufficient(analyze_call.ohlcv))
        => /\ analyze_call.signal.action = "hold"
           /\ analyze_call.signal.reason # ""

\* The latest trailing call was this operation, made in this step.
TrailingStep(op) ==
    /\ trailing_call'.seq = trailing_call.seq + 1
    /\ trailing_call'.op = op

\* The price has reached activation_price in the trailing direction.
Crossed(ts, price) ==
    IF ts.direction = "up" THEN price >= ts.activation_price
    ELSE price <= ts.activation_price

\* The price has retraced from the watermark by trailing_percent or more:
\* (watermark - price) / watermark * 100 >= trailing_percent for 'up',
\* (price - watermark) / watermark * 100 >= trailing_percent for 'down'.
Retraced(ts, price) ==
    IF ts.direction = "up"
    THEN (ts.watermark - price) * 100 >= ts.trailing_percent * ts.watermark
    ELSE (price - ts.watermark) * 100 >= ts.trailing_percent * ts.watermark

\* waiting -> active, active -> triggered and any -> inactive as the
\* trailing state machine lists them.
ListedStatusChange ==
    \/ /\ trailing_state.status = "waiting"
       /\ trailing_state'.status = "active"
       /\ TrailingStep("update")
       /\ Crossed(trailing_state, trailing_call'.price)
    \/ /\ trailing_state.status = "active"
       /\ trailing_state'.status = "triggered"
       /\ TrailingStep("update")
       /\ Retraced(trailing_state, trailing_call'.price)
    \/ /\ trailing_state'.status = "inactive"
       /\ TrailingStep("reset")

\* C24: the trailing status changes only from inactive to waiting by
\* start_trailing, from waiting to active by an update_trailing whose price
\* has crossed activation_price, from active to triggered by an
\* update_trailing whose price has retraced by trailing_percent or more, and
\* from any status to inactive by reset_trailing.
C24_StatusChanges ==
    [][trailing_state'.status # trailing_state.status
         => \/ ListedStatusChange
            \/ /\ trailing_state.status = "inactive"
               /\ trailing_state'.status = "waiting"
               /\ TrailingStep("start")]_vars

\* C24, amended: as above, but start_trailing leads to waiting from every
\* status, so active -> waiting and triggered -> waiting occur as well.
C24_StatusChangesAmended ==
    [][trailing_state'.status # trailing_state.status
         => \/ ListedStatusChange
            \/ /\ trailing_state'.status = "waiting"
               /\ TrailingStep("start")]_vars

\* C24 witness: start_trailing was called on a triggered trailing state,
\* which is waiting again.
C24_Witness ==
    /\ trailing_call.op = "start"
    /\ trailing_call.was = "triggered"
    /\ trailing_state.status = "waiting"

\* C25: while the trailing status is active the watermark equals the best
\* price update_trailing has seen since the activation, and from one active
\* state to the next it never falls for 'up' and never rises for 'down'.
C25_WatermarkIsBest ==
    /\ [](trailing_state.status = "active"
            => trailing_state.watermark = trailing_call.best)
    /\ [][(trailing_state.status = "active"
            /\ trailing_state'.status = "active")
           => IF trailing_state.direction = "up"
              THEN trailing_state'.watermark >= trailing_state.watermark
              ELSE trailing_state'.watermark <= trailing_state.watermark]_vars

\* C25 witness: an active trailing order whose watermark an update has
\* moved past the price it was activated at, and a later update that left
\* it where it was.
C25_Witness ==
    /\ trailing_state.status = "active"
    /\ trailing_call.op = "update"
    /\ trailing_call.was = "active"
    /\ trailing_call.price # trailing_state.watermark
    /\ trailing_state.watermark # trailing_state.activation_price

\* C26: update_trailing(price) returns True exactly when the status is
\* active on entry and the price has retraced from the watermark read on
\* entry by trailing_percent or more; on an inactive, a waiting (the
\* activating call included) or a triggered state it returns False.
C26_TrueExactlyOnRetrace ==
    [][TrailingStep("update")
         => (trailing_call'.result
                = (/\ trailing_state.status = "active"
                   /\ Retraced(trailing_state, trailing_call'.price)))]_vars

\* C26 witness: an update_trailing on an active order has returned True at
\* a retrace of exactly trailing_percent.
C26_Witness ==
    /\ trailing_call.op = "update"
    /\ trailing_call.was = "active"
    /\ trailing_call.result
    /\ trailing_state.status = "triggered"
    /\ trailing_state.direction = "up"
    /\ (trailing_state.watermark - trailing_call.price) * 100
          = trailing_state.trailing_percent * trailing_state.watermark

\* C27: reset_trailing leaves, whatever the trailing state was, the status
\* inactive and direction, activation_price, watermark, trailing_percent
\* and last_update cleared (None: "none" and 0 here); a second
\* reset_trailing changes nothing.
C27_ResetClearsAll ==
    [][TrailingStep("reset")
         => /\ trailing_state'.status = "inactive"
            /\ trailing_state'.direction = "none"
            /\ trailing_state'.activation_price = 0
            /\ trailing_state'.watermark = 0
            /\ trailing_state'.trailing_percent = 0
            /\ trailing_state'.last_update = 0
            /\ (trailing_state.status = "inactive"
                  => trailing_state' = trailing_state)]_vars

\* C27 witness: reset_trailing has been called on an active trailing order
\* and has left the cleared state.
C27_Witness ==
    /\ trailing_call.op = "reset"
    /\ trailing_call.was = "active"
    /\ trailing_state.status = "inactive"
    /\ trailing_state.watermark = 0

\* C28: every purchase of the AdvancedDCA ledger has, for the cost it has
\* now, sell_price = (cost + fee) / amount * (1 + min_profit_percent +
\* buffer) with buffer 0.002: at its creation and after every reallocation
\* that lowered its cost.
C28_SellPriceFormula ==
    \A i \in 1..Len(purchases) :
        LET pu == purchases[i]
        IN  pu.sell_price =
                RMul(RDiv(RAdd(pu.cost, pu.fee), pu.amount),
                     RAdd(RAdd(One, min_profit_percent), Norm(2, 1000)))

\* The step lowered the cost of the last purchase of the ledger by a
\* reallocation: a sell fill that raised total_dca_applied.
ReallocatedLast(j) ==
    /\ last_order'.side = "sell"
    /\ ledger_fills' = ledger_fills + 1
    /\ j = Len(purchases')
    /\ RLess(total_dca_applied, total_dca_applied')

\* C29: from one state to the next, whatever the operation (buy fill, sell
\* fill with or without reallocation, analyze), the cost of a purchase that
\* stays in the ledger is the same or lower, and it is lower only for the
\* purchase a reallocation has worked on.
C29_CostNeverIncreases ==
    [][\A i \in 1..Len(purchases), j \in 1..Len(purchases') :
          purchases'[j].buy_order_id = purchases[i].buy_order_id
            => /\ RLeq(purchases'[j].cost, purchases[i].cost)
               /\ purchases'[j].cost # purchases[i].cost
                    => ReallocatedLast(j)]_vars

\* C29 witness: a purchase that a reallocation has worked on and that an
\* analyze call has looked at since, still at its lowered cost.
C29_Witness ==
    /\ variant = "advanced_dca"
    /\ Len(purchases) >= 1
    /\ RLess(Zero, purchases[Len(purchases)].dca_applied)
    /\ RLess(purchases[Len(purchases)].cost,
             RMul(purchases[Len(purchases)].amount,
                  purchases[Len(purchases)].price))
    /\ analyze_call # NoAnalyze
    /\ analyze_call.signal.action = "hold"

\* The buy order ids of a ledger, in order.
IdsOf(ps) == [j \in 1..Len(ps) |-> ps[j].buy_order_id]

\* Some purchase of the ledger has the amount of the order.
Matches(order) == \E i \in 1..Len(purchases) : purchases[i].amount = order.amount

\* C30: a filled buy appends exactly one purchase, carrying the order's id,
\* and leaves the others as they are; a filled sell whose amount is the amount
\* of some purchase removes exactly one purchase, one of that amount, and no
\* other leaves or enters the ledger; a filled sell whose amount matches no
\* purchase, an empty ledger included, leaves purchases, total_profit and
\* total_dca_applied unchanged.
C30_OneBuyOneSell ==
    [][LET order == last_order'
           ids == IdsOf(purchases)
       IN /\ order.side = "buy" =>
                /\ Len(purchases') = Len(purchases) + 1
                /\ SubSeq(purchases', 1, Len(purchases)) = purchases
                /\ purchases'[Len(purchases')].buy_order_id = order.id
          /\ (order.side = "sell" /\ Matches(order)) =>
                \E i \in 1..Len(purchases) :
                    /\ purchases[i].amount = order.amount
                    /\ IdsOf(purchases') =
                         SubSeq(ids, 1, i - 1) \o SubSeq(ids, i + 1, Len(ids))
          /\ (order.side = "sell" /\ ~Matches(order)) =>
                UNCHANGED <<purchases, total_profit, total_dca_applied>>]_vars

\* C30 witness: two buys filled, then a sell that matched one of them: one
\* purchase is left and the profit of the sale is booked.
C30_Witness ==
    /\ ledger_fills = 3
    /\ last_order.side = "sell"
    /\ Len(purchases) = 1
    /\ total_profit # Zero

\* A step that puts a new analyze call on record; the ledger is the one the
\* call has read.  Every ledger is also reached before any call.
AnalyzeStep == analyze_call' # analyze_call /\ purchases' = purchases

\* The share of the enabled indicators that vote for a buy on the window of
\* a call.
AgreeingFraction(call) ==
    Norm(Cardinality(call.ohlcv.votes \cap strategy_params.enabled),
         Cardinality(strategy_params.enabled))

\* C31: for every set of enabled indicators, every analyze call of an
\* AdvancedDCAStrategy returns a signal whose action is buy, sell or hold and
\* whose confidence lies in [0, 1]; a buy is returned only when the share of
\* agreeing enabled indicators is at least indicator_agreement and, with a
\* non-empty ledger, only when the price has dropped from the last
\* purchase's price by at least the required step-down.
C31_SignalsAndBuyGuards ==
    [][AnalyzeStep =>
        LET call == analyze_call'
            signal == call.signal
        IN  /\ signal.action \in {"buy", "sell", "hold"}
            /\ RLeq(Zero, signal.confidence)
            /\ RLeq(signal.confidence, One)
            /\ signal.action = "buy" =>
                  /\ strategy_params.enabled # {}
                  /\ RLeq(strategy_params.indicator_agreement,
                          AgreeingFraction(call))
                  /\ Len(purchases) > 0 =>
                        RLeq(RequiredStep(step_params, Len(purchases) + 1),
                             price_drop_from_last(purchases, call.last))]_vars

\* The purchases that have reached their sell price at the price of a call;
\* a snapshot that carries no price reaches none.
ReachedSellPrice(call) ==
    {i \in 1..Len(purchases) :
        /\ call.last # Zero
        /\ RLeq(purchases[i].sell_price, call.last)}

C33_MaxPurchasesRespected ==
    [][strategy_params.max_purchases >= 0 =>
          /\ Len(purchases') <= strategy_params.max_purchases
          /\ (AnalyzeStep /\ Len(purchases) >= strategy_params.max_purchases)
                => analyze_call'.signal.action # "buy"]_vars

\* A step of GridTradingStrategy.on_order_filled.
GridFill == grid_call'.op = "fill" /\ grid_call'.n = grid_call.n + 1

\* C40: when a pending grid order fills, on_order_filled removes it from
\* grid_orders and adds exactly one pending order of the opposite side one
\* grid_spacing away (a sell at price * (1 + spacing) after a buy, a buy at
\* price * (1 - spacing) after a sell): the number of grid orders is the
\* same before and after, and the order added is the new last one.
C40_FillKeepsGridSize ==
    [][GridFill =>
        LET order == grid_call'.order
            before == grid.grid_orders
            after == grid'.grid_orders
            step == RDiv(grid_spacing, R(100))
            added == after[Len(after)]
        IN  /\ Len(after) = Len(before)
            /\ added.side = IF order.side = "buy" THEN "sell" ELSE "buy"
            /\ added.price = IF order.side = "buy"
                             THEN RMul(order.price, RAdd(One, step))
                             ELSE RMul(order.price, RSub(One, step))
            /\ \A k \in 1..(Len(after) - 1) :
                  after[k].price # order.price \/ after[k].side # order.side
       ]_vars

\* A step of analyze() of any of the three strategy classes.
AnalyzeCalled ==
    \/ analyze_call' # analyze_call
    \/ grid_call'.op = "analyze" /\ grid_call'.n = grid_call.n + 1

\* The fields of a DCAStrategy that its get_state() returns.
DcaSaved(f) ==
    [k \in {"last_purchase_time", "last_purchase_price", "total_purchased",
            "total_spent", "purchase_count", "pending_sell_order"} |-> f[k]]

\* C34: a call of analyze leaves get_state() as it was, for each of the
\* three strategy classes: grid_orders and current_price of the grid
\* strategy, the saved fields of the DCA strategy, the ledger and the totals
\* of the advanced DCA strategy, and the trailing state.
C34_AnalyzeLeavesState ==
    [][AnalyzeCalled =>
          /\ grid_get_state(grid') = grid_get_state(grid)
          /\ DcaSaved(dca_fields') = DcaSaved(dca_fields)
          /\ UNCHANGED <<purchases, total_profit, total_dca_applied,
                         trailing_state>>]_vars

\* The price and the amount of the signal the engine has just processed:
\* metadata's, the candle's close for a missing price, nothing for a missing
\* amount.
ProcessedPrice ==
    LET last == bt_signals'[Len(bt_signals')]
    IN  IF "price" \in DOMAIN last.signal.metadata
        THEN last.signal.metadata.price ELSE last.close

ProcessedAmount ==
    LET last == bt_signals'[Len(bt_signals')]
    IN  IF "amount" \in DOMAIN last.signal.metadata
        THEN last.signal.metadata.amount ELSE Zero

\* The engine's ledger is left as it was.
LedgerUntouched ==
    /\ backtest'.balance = backtest.balance
    /\ backtest'.position = backtest.position
    /\ backtest'.position_cost = backtest.position_cost
    /\ backtest'.trades = backtest.trades

\* C35: the simulated ledger keeps balance >= 0 and position >= 0; a buy
\* whose cost exceeds the balance and a sell whose amount exceeds the
\* position leave balance, position, position_cost and the trade log
\* unchanged; any other buy or sell of a positive amount is filled in full
\* at the signal's price: the balance moves by amount * price, the position
\* by amount, and one trade is logged.
C35_BacktestLedger ==
    /\ [](RLeq(Zero, backtest.balance) /\ RLeq(Zero, backtest.position))
    /\ [][Len(bt_signals') = Len(bt_signals) + 1 =>
            LET action == bt_signals'[Len(bt_signals')].signal.action
                cost == RMul(ProcessedAmount, ProcessedPrice)
            IN  /\ (action = "buy" /\ RLess(backtest.balance, cost))
                      => LedgerUntouched
                /\ (action = "sell"
                        /\ RLess(backtest.position, ProcessedAmount))
                      => LedgerUntouched
                /\ (/\ action = "buy"
                    /\ RLess(Zero, ProcessedAmount)
                    /\ RLeq(cost, backtest.balance)) =>
                      /\ backtest'.balance = RSub(backtest.balance, cost)
                      /\ backtest'.position =
                            RAdd(backtest.position, ProcessedAmount)
                      /\ Len(backtest'.trades) = Len(backtest.trades) + 1
                /\ (/\ action = "sell"
                    /\ RLess(Zero, ProcessedAmount)
                    /\ RLeq(ProcessedAmount, backtest.position)) =>
                      /\ backtest'.balance = RAdd(backtest.balance, cost)
                      /\ backtest'.position =
                            RSub(backtest.position, ProcessedAmount)
                      /\ Len(backtest'.trades) = Len(backtest.trades) + 1
       ]_vars

\* C35 witness: with 100 to spend, a first buy of one unit at 100 was filled
\* and has emptied the balance, and a second buy was skipped: one trade is
\* logged after three candles.
C35_Witness ==
    /\ backtest.initial_balance = R(100)
    /\ Len(bt_signals) = 3
    /\ bt_signals[1].signal.action = "buy"
    /\ bt_signals[2].signal.action = "buy"
    /\ bt_signals[3].signal.action = "hold"
    /\ Len(backtest.trades) = 1
    /\ backtest.balance = Zero
    /\ backtest.position = One

\* C36: BacktestEngine.run, given a strategy and a non-empty bar sequence,
\* terminates normally and returns the results dictionary: a run that has
\* ended has ended by returning, and raised nothing.
C36_RunReturnsResults == results.done => results.ended = "returned"

\* A step in which the run loop has called strategy.on_order_filled.
Notified == delivered' # delivered

\* C37: each on_order_filled notification the run loop makes is followed by
\* a _save_state call before the next strategy.analyze: the step that
\* notifies the strategy also writes the state with the booked fill, or has
\* made the call and seen the write fail.
C37_NotificationThenSave ==
    [][Notified =>
          \/ last_error' = "save"
          \/ /\ disk'.kind = "state"
             /\ disk'.strategy_fills = strategy_fills']_vars

\* stop() has returned and no start() has followed it.
StopReturned == cpc = "idle" /\ ~running

\* A step in which thread w calls the exchange: get_market_data,
\* get_open_orders or place_order.
ExchangeCall(w) ==
    /\ wpc[w] \in {"fetch", "reconcile", "execute"}
    /\ wpc'[w] # wpc[w]

\* Thread w has left its last iteration: it has ended, or it sleeps or
\* stands at the loop's test, which ends it once running is cleared.
Finished(w) == wpc[w] \in {"dead", "top", "sleep", "backoff", "paused"}

\* C38: once stop() has returned, the worker thread makes no further
\* exchange call, no further on_order_filled notification and no further
\* write of the state file, and stop() disconnects the exchange only after
\* the worker has finished its last iteration.
C38_NothingAfterStop ==
    [][/\ StopReturned =>
             /\ disk' = disk
             /\ ~Notified
             /\ \A w \in Workers : ~ExchangeCall(w)
       /\ (connected /\ ~connected') => \A w \in Workers : Finished(w)]_vars

\* BotInstance.get_status: the two flags of the status dictionary.
get_status(running_, paused_) == [running |-> running_, paused |-> paused_]

\* C39: after any sequence of start(), pause(), resume() and stop() the bot
\* is stopped, running or paused: get_status never reports paused together
\* with not running, and a start() leaves the bot unpaused.
C39_PausedOnlyWhileRunning ==
    [][/\ get_status(running', paused').paused
             => get_status(running', paused').running
       /\ (~running /\ running') => ~paused']_vars

====
